---------------------------- MODULE Spec2Model ----------------------------
(***************************************************************************)
(* Model of the PTY-backed terminal engine of zellij-ide                   *)
(* (src/src/terminal_actor.rs): the TerminalGrid cell buffer, the          *)
(* TerminalPerformer that the vte parser drives, the reader thread and     *)
(* the caller-side operations of TerminalActor; and of the key bindings    *)
(* (src/src/keybindings.rs): KeyBinding::from_string, Display, matches;   *)
(* ApiParams::get (src/src/actor.rs) for the API methods.                  *)
(*                                                                         *)
(* Conventions.  Rust indices are 0-based, TLA+ sequences 1-based: the     *)
(* cell at column x of row y is g.cells[y + 1][x + 1].  Bytes and chars    *)
(* are their code points (ESC = 27, ' ' = 32, ...); only 7-bit bytes are   *)
(* fed, so the parser's UTF-8 path is not modelled.  Colours are the       *)
(* Color32 RGB triples of the source.                                      *)
(***************************************************************************)
EXTENDS Integers, Sequences, FiniteSets, TLC

VARIABLES
    grid,             \* TerminalActor.terminal_grid: the shared TerminalGrid
    pen,              \* TerminalPerformer.current_fg / current_bg / bold
    parser,           \* the vte parser owned by the reader thread
    pty_size,         \* the kernel window size of the PTY, <<cols, rows>>
    rpc,              \* reader thread: "read" (blocked in reader.read) | "advance"
                      \* (between two bytes) | "in_op" (inside a callback that
                      \* holds the grid lock) | "panicked"
    cpc,              \* caller thread: "idle" | ... | "panicked"
    grid_lock,        \* owner of the terminal_grid mutex: "none" | "reader" | "caller"
    poisoned,         \* the terminal_grid mutex is poisoned (a holder panicked)
    buf,              \* bytes of the current PTY read the reader has not yet advanced
    snap,             \* what the caller has read of the grid in its current pass
    want,             \* the size the caller's current resize asks for
    overflow_checks,  \* build profile: "unknown" until an overflow shows it, "on" | "off"
    applied_size,     \* the size given to TerminalGrid::new or the last grid.resize (history)
    last,             \* the last operation taken (history)
    nops,             \* number of operations taken (history, bounds the run)
    writer,           \* TerminalActor.writer is Some(..)
    pty_in,           \* the byte strings handed to writer.write_all, in order
    kb                \* a KeyBinding with what was rendered, parsed and matched
                      \* from it (keybindings.rs)

vars == <<grid, pen, parser, pty_size, rpc, cpc, grid_lock, poisoned, buf,
          snap, want, overflow_checks, applied_size, last, nops, writer,
          pty_in, kb>>

\* the input side: what is written to the PTY, and the key binding
ioVars == <<writer, pty_in, kb>>

---------------------------------------------------------------------------
(* Bounds of the model.                                                    *)

\* Largest number of columns / rows a grid is created with or resized to
\* (the source creates 80 x 24 and resizes to any u16 x u16).
MaxCols == 3
MaxRows == 2
\* Number of operations (PTY reads, resizes) in a run; one read may carry
\* several characters and escape sequences.
MaxOps == 2

---------------------------------------------------------------------------
(* Integers of the source.                                                 *)

Min(a, b) == IF a < b THEN a ELSE b

\* usize::MAX.  2^64 - 1 is outside TLC's integers; the value only takes
\* part in `<` and `min` against cursor coordinates, which stay far below
\* TLC's largest integer, so that integer stands for it.
UsizeMax == 2147483647

\* a - 1 on usize with overflow checks off (release profile): wraps at 0.
WrappingSub1(a) == IF a = 0 THEN UsizeMax ELSE a - 1

\* a.saturating_sub(n) on usize
SaturatingSub(a, n) == IF a < n THEN 0 ELSE a - n

---------------------------------------------------------------------------
(* Colours: TerminalColors::default() (RGB triples).                       *)

black == <<40, 44, 52>>
red == <<224, 108, 117>>
green == <<152, 195, 121>>
yellow == <<229, 192, 123>>
blue == <<97, 175, 239>>
magenta == <<198, 120, 221>>
cyan == <<86, 182, 194>>
white == <<171, 178, 191>>
bright_black == <<92, 99, 112>>
bright_red == <<240, 113, 120>>
bright_green == <<166, 218, 149>>
bright_yellow == <<229, 192, 123>>
bright_blue == <<103, 173, 228>>
bright_magenta == <<224, 108, 117>>
bright_cyan == <<152, 195, 121>>
bright_white == <<208, 208, 208>>
foreground == <<171, 178, 191>>
background == <<40, 44, 52>>

---------------------------------------------------------------------------
(* TerminalCell, TerminalGrid.                                             *)

\* TerminalCell::default()
DefaultCell ==
    [ch |-> 32, fg |-> <<171, 178, 191>>, bg |-> <<40, 44, 52>>,
     bold |-> FALSE, italic |-> FALSE, underline |-> FALSE,
     strikethrough |-> FALSE]

\* vec![TerminalCell::default(); cols]
BlankRow(cols) == [i \in 1..cols |-> DefaultCell]

\* "Terminal"
TitleTerminal == <<84, 101, 114, 109, 105, 110, 97, 108>>

\* TerminalGrid::new(cols, rows)
TerminalGridNew(cols, rows) ==
    [cells |-> [j \in 1..rows |-> BlankRow(cols)],
     cursor |-> [x |-> 0, y |-> 0, visible |-> TRUE],
     size |-> <<cols, rows>>,
     title |-> TitleTerminal,
     dirty_lines |-> [j \in 1..rows |-> TRUE]]

\* Vec::resize(n, fill)
VecResize(v, n, fill) == [i \in 1..n |-> IF i <= Len(v) THEN v[i] ELSE fill]

\* Vec::truncate(n)
VecTruncate(v, n) == IF n < Len(v) THEN SubSeq(v, 1, n) ELSE v

\* the cursor clamp at the end of TerminalGrid::resize
resize_cursor(c, cols, rows) ==
    [c EXCEPT !.x = Min(c.x, SaturatingSub(cols, 1)),
              !.y = Min(c.y, SaturatingSub(rows, 1))]

\* variant of resize_rows: a grown grid gets its new rows at the top
resize_rows_at_top(cells, old_rows, cols, rows) ==
    IF rows > old_rows
    THEN [j \in 1..(rows - old_rows) |-> BlankRow(cols)] \o cells
    ELSE VecTruncate(cells, rows)

\* the "add or remove rows" step of TerminalGrid::resize
resize_rows(cells, old_rows, cols, rows) ==
    IF rows > old_rows
    THEN cells \o [k \in 1..(rows - old_rows) |-> BlankRow(cols)]
    ELSE VecTruncate(cells, rows)

\* TerminalGrid::resize(cols, rows)
resize(g, cols, rows) ==
    LET widened == [j \in 1..Len(g.cells) |->
                       VecResize(g.cells[j], cols, DefaultCell)]
    IN  [g EXCEPT !.cells = resize_rows(widened, g.size[2], cols, rows),
                  !.dirty_lines = VecResize(g.dirty_lines, rows, TRUE),
                  !.size = <<cols, rows>>,
                  !.cursor = resize_cursor(g.cursor, cols, rows)]

\* variant of put_char: the cursor moves one column on after the write
put_char_advances(g, ch, fg, bg, bold) ==
    IF g.cursor.y < g.size[2] /\ g.cursor.x < g.size[1]
    THEN [g EXCEPT !.cells[g.cursor.y + 1][g.cursor.x + 1] =
                       [ch |-> ch, fg |-> fg, bg |-> bg, bold |-> bold,
                        italic |-> FALSE, underline |-> FALSE,
                        strikethrough |-> FALSE],
                   !.dirty_lines[g.cursor.y + 1] = TRUE,
                   !.cursor.x = @ + 1]
    ELSE g

\* TerminalGrid::put_char(ch, fg, bg, bold)
put_char(g, ch, fg, bg, bold) ==
    IF g.cursor.y < g.size[2] /\ g.cursor.x < g.size[1]
    THEN [g EXCEPT !.cells[g.cursor.y + 1][g.cursor.x + 1] =
                       [ch |-> ch, fg |-> fg, bg |-> bg, bold |-> bold,
                        italic |-> FALSE, underline |-> FALSE,
                        strikethrough |-> FALSE],
                   !.dirty_lines[g.cursor.y + 1] = TRUE]
    ELSE g

\* variant of move_cursor: the coordinates are stored without the clamp
move_cursor_unclamped(g, x, y) == [g EXCEPT !.cursor.x = x, !.cursor.y = y]

\* TerminalGrid::move_cursor(x, y)
move_cursor(g, x, y) ==
    [g EXCEPT !.cursor.x = Min(x, SaturatingSub(g.size[1], 1)),
              !.cursor.y = Min(y, SaturatingSub(g.size[2], 1))]

\* TerminalGrid::clear_line(y)
clear_line(g, y) ==
    IF y < g.size[2]
    THEN [g EXCEPT !.cells[y + 1] = [i \in 1..Len(g.cells[y + 1]) |-> DefaultCell],
                   !.dirty_lines[y + 1] = TRUE]
    ELSE g

\* variant of scroll_one: the top row is removed and no blank row is pushed
scroll_one_no_push(g) == [g EXCEPT !.cells = Tail(g.cells)]

\* one iteration of the loop of scroll_up: cells.remove(0); cells.push(blank row)
scroll_one(g) == [g EXCEPT !.cells = Tail(g.cells) \o <<BlankRow(g.size[1])>>]

\* variant of scroll_lines: the loop body runs once whatever `lines` is
scroll_lines_once(g, lines) == scroll_one(g)

RECURSIVE scroll_lines(_, _)
scroll_lines(g, lines) ==
    IF lines = 0 THEN g ELSE scroll_lines(scroll_one(g), lines - 1)

\* TerminalGrid::scroll_up(lines); only called with a non-empty cell matrix
scroll_up(g, lines) ==
    LET s == scroll_lines(g, lines)
    IN  [s EXCEPT !.dirty_lines = [j \in 1..Len(g.dirty_lines) |-> TRUE]]


---------------------------------------------------------------------------
(* TerminalPerformer: the vte::Perform callbacks.  Each returns an outcome: *)
(* the grid and pen it leaves, whether it panicked (an out-of-range index), *)
(* whether it evaluated `size - 1` on a size of 0 (that subtraction panics   *)
(* when the build checks overflow and wraps to usize::MAX when it does not; *)
(* `grid` is the result of the wrapping build), and whether it took the     *)
(* grid lock (`self.grid.lock().unwrap()`).                                 *)

Done(g, p, ovf) ==
    [grid |-> g, pen |-> p, panic |-> FALSE, overflow |-> ovf, locked |-> TRUE]
Panicked(g, p, ovf) ==
    [grid |-> g, pen |-> p, panic |-> TRUE, overflow |-> ovf, locked |-> TRUE]
\* a callback that returns without touching the grid
Untouched(g, p) ==
    [grid |-> g, pen |-> p, panic |-> FALSE, overflow |-> FALSE, locked |-> FALSE]

\* TerminalPerformer::new: the initial pen
PerformerNew == [fg |-> foreground, bg |-> background, bold |-> FALSE]

\* variant of advance_cursor: at the bottom-right cell the cursor returns to
\* column 0 and the grid is not scrolled
advance_cursor_no_scroll(g, p) ==
    IF g.cursor.x < WrappingSub1(g.size[1])
    THEN Done([g EXCEPT !.cursor.x = @ + 1], p, g.size[1] = 0)
    ELSE IF g.cursor.y < WrappingSub1(g.size[2])
    THEN Done([g EXCEPT !.cursor.x = 0, !.cursor.y = @ + 1], p, g.size[2] = 0)
    ELSE Done([g EXCEPT !.cursor.x = 0], p, FALSE)

\* the "move cursor forward" part of TerminalPerformer::print
advance_cursor(g, p) ==
    IF g.cursor.x < WrappingSub1(g.size[1])
    THEN Done([g EXCEPT !.cursor.x = @ + 1], p, g.size[1] = 0)
    ELSE IF g.cursor.y < WrappingSub1(g.size[2])
    THEN Done([g EXCEPT !.cursor.x = 0, !.cursor.y = @ + 1], p, g.size[2] = 0)
    ELSE IF Len(g.cells) = 0
    THEN Panicked(g, p, FALSE)
    ELSE Done([scroll_up(g, 1) EXCEPT !.cursor.x = 0], p, FALSE)

\* variant of print: the cell is written with the default colours, not the pen
print_default_colours(g, p, c) ==
    advance_cursor(put_char(g, c, foreground, background, FALSE), p)

\* TerminalPerformer::print(c)
print(g, p, c) == advance_cursor(put_char(g, c, p.fg, p.bg, p.bold), p)

\* variant of line_feed: LF also returns the cursor to column 0
line_feed_cr(g, p) ==
    IF g.cursor.y < WrappingSub1(g.size[2])
    THEN Done([g EXCEPT !.cursor.y = @ + 1, !.cursor.x = 0], p, g.size[2] = 0)
    ELSE IF Len(g.cells) = 0
    THEN Panicked(g, p, FALSE)
    ELSE Done([scroll_up(g, 1) EXCEPT !.cursor.x = 0], p, FALSE)

\* the Line Feed arm of TerminalPerformer::execute
line_feed(g, p) ==
    IF g.cursor.y < WrappingSub1(g.size[2])
    THEN Done([g EXCEPT !.cursor.y = @ + 1], p, g.size[2] = 0)
    ELSE IF Len(g.cells) = 0
    THEN Panicked(g, p, FALSE)
    ELSE Done(scroll_up(g, 1), p, FALSE)

\* variant of backspace: at column 0 the cursor goes to the end of the row above
backspace_wraps(g, p) ==
    IF g.cursor.x > 0 THEN Done([g EXCEPT !.cursor.x = @ - 1], p, FALSE)
    ELSE IF g.cursor.y > 0
    THEN Done([g EXCEPT !.cursor.x = SaturatingSub(g.size[1], 1),
                        !.cursor.y = @ - 1], p, FALSE)
    ELSE Done(g, p, FALSE)

\* variant of backspace: the cell the cursor moves onto is blanked
backspace_erases(g, p) ==
    Done(IF g.cursor.x > 0
         THEN put_char([g EXCEPT !.cursor.x = @ - 1], 32, p.fg, p.bg, FALSE)
         ELSE g, p, FALSE)

\* the Backspace arm of TerminalPerformer::execute
backspace(g, p) ==
    Done(IF g.cursor.x > 0 THEN [g EXCEPT !.cursor.x = @ - 1] ELSE g, p, FALSE)

\* TerminalPerformer::execute(byte)
execute(g, p, byte) ==
    CASE byte = 10 -> line_feed(g, p)
      [] byte = 13 -> Done([g EXCEPT !.cursor.x = 0], p, FALSE)
      [] byte = 9 ->
            LET next_tab == ((g.cursor.x \div 8) + 1) * 8
            IN  Done([g EXCEPT !.cursor.x = Min(next_tab, WrappingSub1(g.size[1]))],
                     p, g.size[1] = 0)
      [] byte = 8 -> backspace(g, p)
      [] OTHER -> Done(g, p, FALSE)

\* params.iter().nth(i).and_then(|p| p.get(0)).unwrap_or(&dflt)
ParamOr(params, i, dflt) == IF i < Len(params) THEN params[i + 1] ELSE dflt

\* for x in lo..hi { grid.cells[y][x] = TerminalCell::default(); }
\* Indexing panics at the first x (or y) outside the matrix; the cells
\* before it are already overwritten.
erase_cells(g, p, y, lo, hi) ==
    IF lo >= hi THEN Done(g, p, FALSE)
    ELSE IF y >= Len(g.cells) THEN Panicked(g, p, FALSE)
    ELSE LET rowlen == Len(g.cells[y + 1])
             erased == [g EXCEPT !.cells[y + 1] =
                           [i \in 1..rowlen |->
                               IF lo < i /\ i <= hi THEN DefaultCell ELSE @[i]]]
         IN  IF hi > rowlen THEN Panicked(erased, p, FALSE)
             ELSE Done(erased, p, FALSE)

\* for y in lo..hi { grid.clear_line(y); }
RECURSIVE clear_lines(_, _, _)
clear_lines(g, lo, hi) ==
    IF lo >= hi THEN g ELSE clear_lines(clear_line(g, lo), lo + 1, hi)

\* grid.dirty_lines[cursor_y] = true, the last statement of the 'K' arm
mark_cursor_line(r) ==
    IF r.panic THEN r
    ELSE IF r.grid.cursor.y >= Len(r.grid.dirty_lines)
    THEN Panicked(r.grid, r.pen, r.overflow)
    ELSE [r EXCEPT !.grid.dirty_lines[r.grid.cursor.y + 1] = TRUE]

\* variant of erase_in_line: mode 1 stops before the cursor column
erase_in_line_before_cursor(g, p, n) ==
    mark_cursor_line(
        CASE n = 0 -> erase_cells(g, p, g.cursor.y, g.cursor.x, g.size[1])
          [] n = 1 -> erase_cells(g, p, g.cursor.y, 0, g.cursor.x)
          [] n = 2 -> Done(clear_line(g, g.cursor.y), p, FALSE)
          [] OTHER -> Done(g, p, FALSE))

\* the 'K' (Erase in Line) arm of csi_dispatch
erase_in_line(g, p, n) ==
    mark_cursor_line(
        CASE n = 0 -> erase_cells(g, p, g.cursor.y, g.cursor.x, g.size[1])
          [] n = 1 -> erase_cells(g, p, g.cursor.y, 0, g.cursor.x + 1)
          [] n = 2 -> Done(clear_line(g, g.cursor.y), p, FALSE)
          [] OTHER -> Done(g, p, FALSE))

\* variant of erase_in_display: mode 2 clears and leaves the cursor in place
erase_in_display_no_home(g, p, n) ==
    IF n = 2 THEN Done(clear_lines(g, 0, g.size[2]), p, FALSE)
    ELSE Done(g, p, FALSE)

\* variant of erase_in_display: mode 0 erases the rest of the cursor row only
erase_in_display_row_only(g, p, n) ==
    CASE n = 0 -> erase_cells(g, p, g.cursor.y, g.cursor.x, g.size[1])
      [] n = 1 ->
            erase_cells(clear_lines(g, 0, g.cursor.y), p, g.cursor.y, 0,
                        g.cursor.x + 1)
      [] n = 2 ->
            Done([clear_lines(g, 0, g.size[2]) EXCEPT
                     !.cursor = [x |-> 0, y |-> 0, visible |-> TRUE]], p, FALSE)
      [] OTHER -> Done(g, p, FALSE)

\* the 'J' (Erase in Display) arm of csi_dispatch
erase_in_display(g, p, n) ==
    CASE n = 0 ->
            LET r == erase_cells(g, p, g.cursor.y, g.cursor.x, g.size[1])
            IN  IF r.panic THEN r
                ELSE Done(clear_lines(r.grid, g.cursor.y + 1, g.size[2]), p, FALSE)
      [] n = 1 ->
            erase_cells(clear_lines(g, 0, g.cursor.y), p, g.cursor.y, 0,
                        g.cursor.x + 1)
      [] n = 2 ->
            Done([clear_lines(g, 0, g.size[2]) EXCEPT
                     !.cursor = [x |-> 0, y |-> 0, visible |-> TRUE]], p, FALSE)
      [] OTHER -> Done(g, p, FALSE)

\* one parameter of the 'm' (SGR) arm of csi_dispatch
sgr(p, n) ==
    CASE n = 0 -> [fg |-> foreground, bg |-> background, bold |-> FALSE]
      [] n = 1 -> [p EXCEPT !.bold = TRUE]
      [] n = 22 -> [p EXCEPT !.bold = FALSE]
      [] n = 30 -> [p EXCEPT !.fg = black]
      [] n = 31 -> [p EXCEPT !.fg = red]
      [] n = 32 -> [p EXCEPT !.fg = green]
      [] n = 33 -> [p EXCEPT !.fg = yellow]
      [] n = 34 -> [p EXCEPT !.fg = blue]
      [] n = 35 -> [p EXCEPT !.fg = magenta]
      [] n = 36 -> [p EXCEPT !.fg = cyan]
      [] n = 37 -> [p EXCEPT !.fg = white]
      [] n = 39 -> [p EXCEPT !.fg = foreground]
      [] n = 40 -> [p EXCEPT !.bg = black]
      [] n = 41 -> [p EXCEPT !.bg = red]
      [] n = 42 -> [p EXCEPT !.bg = green]
      [] n = 43 -> [p EXCEPT !.bg = yellow]
      [] n = 44 -> [p EXCEPT !.bg = blue]
      [] n = 45 -> [p EXCEPT !.bg = magenta]
      [] n = 46 -> [p EXCEPT !.bg = cyan]
      [] n = 47 -> [p EXCEPT !.bg = white]
      [] n = 49 -> [p EXCEPT !.bg = background]
      [] n = 90 -> [p EXCEPT !.fg = bright_black]
      [] n = 91 -> [p EXCEPT !.fg = bright_red]
      [] n = 92 -> [p EXCEPT !.fg = bright_green]
      [] n = 93 -> [p EXCEPT !.fg = bright_yellow]
      [] n = 94 -> [p EXCEPT !.fg = bright_blue]
      [] n = 95 -> [p EXCEPT !.fg = bright_magenta]
      [] n = 96 -> [p EXCEPT !.fg = bright_cyan]
      [] n = 97 -> [p EXCEPT !.fg = bright_white]
      [] OTHER -> p

\* variant of sgr_all: the loop ends at the first parameter that changes
\* nothing
RECURSIVE sgr_all_stops(_, _)
sgr_all_stops(p, params) ==
    IF params = <<>> \/ sgr(p, Head(params)) = p THEN p
    ELSE sgr_all_stops(sgr(p, Head(params)), Tail(params))

\* for param in params.iter() { for &p in param { ... } }
RECURSIVE sgr_all(_, _)
sgr_all(p, params) ==
    IF params = <<>> THEN p ELSE sgr_all(sgr(p, Head(params)), Tail(params))

\* variant of cursor_position: the first parameter is taken as the column
cursor_position_swapped(g, params) ==
    LET col == ParamOr(params, 0, 1)
        row == ParamOr(params, 1, 1)
    IN  move_cursor(g, SaturatingSub(col, 1), SaturatingSub(row, 1))

\* the 'H' | 'f' (Cursor Position) arm of csi_dispatch
cursor_position(g, params) ==
    LET row == ParamOr(params, 0, 1)
        col == ParamOr(params, 1, 1)
    IN  move_cursor(g, SaturatingSub(col, 1), SaturatingSub(row, 1))

\* variant of csi_other: an unnamed final byte homes the cursor
csi_other_homes(g, p) == Done(move_cursor(g, 0, 0), p, FALSE)

\* the arm of csi_dispatch for a final byte the match does not name
csi_other(g, p) == Done(g, p, FALSE)

\* TerminalPerformer::csi_dispatch(params, _, _, c); c is the final byte
csi_dispatch(g, p, params, c) ==
    CASE c \in {72, 102} -> Done(cursor_position(g, params), p, FALSE)
      [] c = 65 ->
            Done([g EXCEPT !.cursor.y = SaturatingSub(@, ParamOr(params, 0, 1))],
                 p, FALSE)
      [] c = 66 ->
            Done([g EXCEPT !.cursor.y = Min(@ + ParamOr(params, 0, 1),
                                            WrappingSub1(g.size[2]))],
                 p, g.size[2] = 0)
      [] c = 67 ->
            Done([g EXCEPT !.cursor.x = Min(@ + ParamOr(params, 0, 1),
                                            WrappingSub1(g.size[1]))],
                 p, g.size[1] = 0)
      [] c = 68 ->
            Done([g EXCEPT !.cursor.x = SaturatingSub(@, ParamOr(params, 0, 1))],
                 p, FALSE)
      [] c = 75 -> erase_in_line(g, p, ParamOr(params, 0, 0))
      [] c = 74 -> erase_in_display(g, p, ParamOr(params, 0, 0))
      [] c = 109 -> Done(g, sgr_all(p, params), FALSE)
      [] OTHER -> csi_other(g, p)

\* variant of esc_dispatch: the cursor is sent home
esc_dispatch_homes(g, p) == [Untouched(g, p) EXCEPT !.grid = move_cursor(g, 0, 0)]

\* TerminalPerformer::esc_dispatch: empty
esc_dispatch(g, p) == Untouched(g, p)

\* TerminalPerformer::osc_dispatch(params, _); params are byte strings
osc_dispatch(g, p, params) ==
    IF params # <<>> /\ params[1] = <<48>> /\ Len(params) > 1
    THEN Done([g EXCEPT !.title = params[2]], p, FALSE)
    ELSE Untouched(g, p)

---------------------------------------------------------------------------
(* The vte parser (crate vte, driven at parser.advance(&mut performer,     *)
(* byte)): the state machine of the DEC-compatible parser, 7-bit input.    *)
(* A machine M is the reader's view: grid, pen, parser, and whether a      *)
(* callback panicked / met an overflowing subtraction, and how many times  *)
(* a callback took the grid lock.                                          *)

\* Parser::new()
ParserNew == [state |-> "Ground", params |-> <<>>, param |-> 0, osc |-> <<>>]

\* C0 controls that every state executes
IsExecute(b) == b \in 0..23 \/ b = 25 \/ b \in 28..31

\* the result of a callback, folded into the machine; oc: the build checks
\* overflow, so an overflowing subtraction panics before it changes anything
Perform(M, r, oc) ==
    IF r.overflow /\ oc
    THEN [M EXCEPT !.panic = TRUE, !.overflow = TRUE, !.locks = @ + 1]
    ELSE [M EXCEPT !.grid = r.grid, !.pen = r.pen, !.panic = r.panic,
                   !.overflow = @ \/ r.overflow,
                   !.locks = IF r.locked THEN @ + 1 ELSE @]

Goto(M, st) == [M EXCEPT !.parser.state = st]

\* the parser's clear action (entering Escape, CsiEntry, DcsEntry)
Clear(M, st) == [M EXCEPT !.parser.state = st, !.parser.params = <<>>,
                          !.parser.param = 0]

\* Action::Param: a digit accumulates (saturating u16), ';' closes a parameter
ParamAction(M, b) ==
    IF b = 59
    THEN [M EXCEPT !.parser.params = Append(@, M.parser.param),
                   !.parser.param = 0, !.parser.state = "CsiParam"]
    ELSE [M EXCEPT !.parser.param = Min(@ * 10 + (b - 48), 65535),
                   !.parser.state = "CsiParam"]

\* Action::CsiDispatch: the open parameter is pushed, then the callback runs
CsiDispatchAction(M, b, oc) ==
    Goto(Perform(M, csi_dispatch(M.grid, M.pen,
                                 Append(M.parser.params, M.parser.param), b), oc),
         "Ground")

\* Action::OscPut: ';' starts a new parameter, any other byte extends the last
OscPut(M, b) ==
    IF b = 59
    THEN [M EXCEPT !.parser.osc = Append(@, <<>>)]
    ELSE [M EXCEPT !.parser.osc[Len(M.parser.osc)] = Append(@, b)]

\* the exit action of the state being left: OscEnd runs osc_dispatch
ExitState(M, oc) ==
    IF M.parser.state = "OscString"
    THEN Perform(M, osc_dispatch(M.grid, M.pen, M.parser.osc), oc)
    ELSE M

\* Parser::advance in state st, for a byte the "anywhere" rules do not take
AdvanceIn(M, b, oc) ==
    LET st == M.parser.state
    IN
    CASE st = "Ground" ->
            IF IsExecute(b) THEN Perform(M, execute(M.grid, M.pen, b), oc)
            ELSE IF b \in 32..127 THEN Perform(M, print(M.grid, M.pen, b), oc)
            ELSE M
      [] st = "Escape" ->
            IF IsExecute(b) THEN Perform(M, execute(M.grid, M.pen, b), oc)
            ELSE IF b \in 32..47 THEN Goto(M, "EscapeIntermediate")
            ELSE IF b = 91 THEN Clear(M, "CsiEntry")
            ELSE IF b = 93 THEN [M EXCEPT !.parser.state = "OscString",
                                          !.parser.osc = << <<>> >>]
            ELSE IF b = 80 THEN Clear(M, "DcsEntry")
            ELSE IF b \in {88, 94, 95} THEN Goto(M, "SosPmApcString")
            ELSE IF b \in 48..126
            THEN Goto(Perform(M, esc_dispatch(M.grid, M.pen), oc), "Ground")
            ELSE M
      [] st = "EscapeIntermediate" ->
            IF IsExecute(b) THEN Perform(M, execute(M.grid, M.pen, b), oc)
            ELSE IF b \in 48..126
            THEN Goto(Perform(M, esc_dispatch(M.grid, M.pen), oc), "Ground")
            ELSE M
      [] st = "CsiEntry" ->
            IF IsExecute(b) THEN Perform(M, execute(M.grid, M.pen, b), oc)
            ELSE IF b \in 32..47 THEN Goto(M, "CsiIntermediate")
            ELSE IF b \in 48..57 \/ b = 59 THEN ParamAction(M, b)
            ELSE IF b = 58 THEN Goto(M, "CsiIgnore")
            ELSE IF b \in 60..63 THEN Goto(M, "CsiParam")
            ELSE IF b \in 64..126 THEN CsiDispatchAction(M, b, oc)
            ELSE M
      [] st = "CsiParam" ->
            IF IsExecute(b) THEN Perform(M, execute(M.grid, M.pen, b), oc)
            ELSE IF b \in 32..47 THEN Goto(M, "CsiIntermediate")
            ELSE IF b \in 48..57 \/ b = 59 THEN ParamAction(M, b)
            ELSE IF b = 58 \/ b \in 60..63 THEN Goto(M, "CsiIgnore")
            ELSE IF b \in 64..126 THEN CsiDispatchAction(M, b, oc)
            ELSE M
      [] st = "CsiIntermediate" ->
            IF IsExecute(b) THEN Perform(M, execute(M.grid, M.pen, b), oc)
            ELSE IF b \in 48..63 THEN Goto(M, "CsiIgnore")
            ELSE IF b \in 64..126 THEN CsiDispatchAction(M, b, oc)
            ELSE M
      [] st = "CsiIgnore" ->
            IF IsExecute(b) THEN Perform(M, execute(M.grid, M.pen, b), oc)
            ELSE IF b \in 64..126 THEN Goto(M, "Ground")
            ELSE M
      [] st = "OscString" ->
            IF b = 7 THEN Goto(ExitState(M, oc), "Ground")
            ELSE IF b \in 32..127 THEN OscPut(M, b)
            ELSE M
      [] st = "DcsEntry" ->
            IF b \in 64..126 THEN Goto(M, "DcsPassthrough") ELSE M
      [] OTHER -> M   \* DcsPassthrough, SosPmApcString: left by ESC, CAN, SUB

\* Parser::advance(performer, byte)
Advance(M, b, oc) ==
    IF M.panic THEN M
    ELSE IF b \in {24, 26}
    THEN LET X == ExitState(M, oc)
         IN  IF X.panic THEN X
             ELSE Goto(Perform(X, execute(X.grid, X.pen, b), oc), "Ground")
    ELSE IF b = 27
    THEN LET X == ExitState(M, oc)
         IN  IF X.panic THEN X ELSE Clear(X, "Escape")
    ELSE AdvanceIn(M, b, oc)

\* for &byte in &buf[..size] { parser.advance(&mut performer, byte); }
RECURSIVE AdvanceAll(_, _, _)
AdvanceAll(M, bytes, oc) ==
    IF bytes = <<>> THEN M
    ELSE AdvanceAll(Advance(M, Head(bytes), oc), Tail(bytes), oc)

Machine(g, p, ps) ==
    [grid |-> g, pen |-> p, parser |-> ps, panic |-> FALSE, overflow |-> FALSE,
     locks |-> 0]

---------------------------------------------------------------------------
(* What the child process writes: the byte strings one PTY read returns.   *)

\* ESC [ <params> <final>
Csi(params, final) == <<27, 91>> \o params \o <<final>>

\* the first n letters A, B, C, ...
Letters(n) == [i \in 1..n |-> 64 + i]

\* printable runs: "A", "AB", ... up to a full row of the widest grid; Q; X
PrintChunks == {Letters(n) : n \in 1..MaxCols} \cup {<<81>>, <<88>>}

\* LF, CR, TAB, BS
ControlChunks == {<<10>>, <<13>>, <<9>>, <<8>>}

\* cursor position H / f: no parameter, "2", ";2", "2;2", "5;10"
PositionParams == {<<>>, <<50>>, <<59, 50>>, <<50, 59, 50>>, <<53, 59, 49, 48>>}
PositionChunks == {Csi(ps, f) : ps \in PositionParams, f \in {72, 102}}

\* cursor up / down / forward / back: no parameter, "1", "2"
MoveChunks == {Csi(ps, f) : ps \in {<<>>, <<49>>, <<50>>}, f \in {65, 66, 67, 68}}

\* erase in line / display: no parameter, "1", "2", "3"
EraseChunks == {Csi(ps, f) : ps \in {<<>>, <<49>>, <<50>>, <<51>>}, f \in {75, 74}}

\* SGR: no parameter, "0", "1", "31", "41", "1;31"
SgrChunks == {Csi(ps, 109) : ps \in {<<>>, <<48>>, <<49>>, <<51, 49>>, <<52, 49>>,
                                     <<49, 59, 51, 49>>}}

\* ESC [ 9 9 z : a final byte csi_dispatch does not name
UnknownCsi == Csi(<<57, 57>>, 122)

\* ESC ] payload BEL
Osc(payload) == <<27, 93>> \o payload \o <<7>>

\* OSC payloads "0;t", "2;t", "1;t" and "0" (no title part)
OscChunks == {Osc(<<48, 59, 116>>), Osc(<<50, 59, 116>>), Osc(<<49, 59, 116>>),
              Osc(<<48>>)}

\* ESC[31m A ESC[0m B ; ESC[5;10H X ; ESC[2;2H X ; ESC[99z Q
RedAPlainB == Csi(<<51, 49>>, 109) \o <<65>> \o Csi(<<48>>, 109) \o <<66>>
Position5x10X == Csi(<<53, 59, 49, 48>>, 72) \o <<88>>
Position2x2X == Csi(<<50, 59, 50>>, 72) \o <<88>>
UnknownCsiQ == UnknownCsi \o <<81>>

\* 'A', LF, 'B': text on two rows
ALfB == <<65, 10, 66>>

\* single bytes that leave a sequence open across reads
FragmentChunks == {<<27>>, <<91>>, <<59>>, <<57>>, <<122>>}

Chunks ==
    PrintChunks \cup ControlChunks \cup PositionChunks \cup MoveChunks
    \cup EraseChunks \cup SgrChunks \cup OscChunks \cup FragmentChunks
    \cup {UnknownCsi, RedAPlainB, Position5x10X, Position2x2X, UnknownCsiQ,
          ALfB}

---------------------------------------------------------------------------
(* The sequential specification: each PTY read, with the parsing of its    *)
(* bytes, and each caller operation is one step.                           *)

\* no key binding under consideration
NoKb == [pc |-> "none"]

NoSnap == [by |-> "none", cells |-> <<>>, size |-> <<0, 0>>,
           cursor |-> [x |-> 0, y |-> 0, visible |-> TRUE], title |-> <<>>]
Op(op, chunk, size) == [op |-> op, chunk |-> chunk, size |-> size]

\* TerminalActor::new(): grid and PTY of one size (80 x 24 in the source,
\* MaxCols x MaxRows here), a fresh parser and pen, the reader thread
\* blocked in its first read
Init ==
    /\ grid = TerminalGridNew(MaxCols, MaxRows)
    /\ pty_size = <<MaxCols, MaxRows>>
    /\ applied_size = <<MaxCols, MaxRows>>
    /\ pen = PerformerNew
    /\ parser = ParserNew
    /\ rpc = "read"
    /\ cpc = "idle"
    /\ grid_lock = "none"
    /\ poisoned = FALSE
    /\ buf = <<>>
    /\ snap = NoSnap
    /\ want = <<0, 0>>
    /\ overflow_checks = "unknown"
    /\ last = Op("init", <<>>, <<0, 0>>)
    /\ nops = 0
    /\ writer = TRUE
    /\ pty_in = <<>>
    /\ kb = NoKb

\* the build profiles an overflow can still resolve to
Builds == {oc \in BOOLEAN : /\ overflow_checks = "on" => oc
                            /\ overflow_checks = "off" => ~oc}

\* One iteration of the reader loop: reader.read returns the bytes `chunk`,
\* each is advanced through the parser.  A panic in a callback unwinds the
\* thread while it holds the grid lock: the mutex is poisoned.
ReaderRead(chunk) ==
    /\ rpc = "read"
    /\ cpc \in {"idle", "panicked"}
    /\ nops < MaxOps
    /\ \E oc \in Builds :
          LET W == AdvanceAll(Machine(grid, pen, parser), chunk, FALSE)
              M == IF oc THEN AdvanceAll(Machine(grid, pen, parser), chunk, TRUE)
                   ELSE W
          IN  /\ oc => W.overflow
              /\ grid' = M.grid
              /\ pen' = M.pen
              /\ parser' = M.parser
              /\ rpc' = IF M.panic THEN "panicked" ELSE "read"
              /\ poisoned' = (poisoned \/ M.panic)
              /\ overflow_checks' = IF M.overflow
                                    THEN (IF oc THEN "on" ELSE "off")
                                    ELSE overflow_checks
    /\ last' = Op("read", chunk, <<0, 0>>)
    /\ nops' = nops + 1
    /\ UNCHANGED ioVars
    /\ UNCHANGED <<pty_size, cpc, grid_lock, buf, snap, want, applied_size>>

\* TerminalActor::resize_terminal(cols, rows): master.resize (its error is
\* dropped), then terminal_grid.lock().unwrap() and grid.resize
ResizeTerminal(cols, rows) ==
    /\ cpc = "idle"
    /\ nops < MaxOps
    /\ \E pty_ok \in BOOLEAN :
          pty_size' = IF pty_ok THEN <<cols, rows>> ELSE pty_size
    /\ IF poisoned
       THEN cpc' = "panicked" /\ grid' = grid /\ applied_size' = applied_size
       ELSE /\ cpc' = cpc
            /\ grid' = resize(grid, cols, rows)
            /\ applied_size' = <<cols, rows>>
    /\ last' = Op("resize", <<>>, <<cols, rows>>)
    /\ nops' = nops + 1
    /\ UNCHANGED ioVars
    /\ UNCHANGED <<pen, parser, rpc, grid_lock, poisoned, buf, snap, want,
                   overflow_checks>>

Next ==
    \/ \E chunk \in Chunks : ReaderRead(chunk)
    \/ \E cols \in 0..MaxCols, rows \in 0..MaxRows : ResizeTerminal(cols, rows)

Spec == Init /\ [][Next]_vars

---------------------------------------------------------------------------
(* Properties of the sequential specification.                             *)

CellAt(g, x, y) == g.cells[y + 1][x + 1]
RowChars(row) == [i \in 1..Len(row) |-> row[i].ch]
Range(f) == {f[i] : i \in DOMAIN f}
NonEmpty(g) == g.size[1] >= 1 /\ g.size[2] >= 1
AtCorner(g) == g.cursor.x = g.size[1] - 1 /\ g.cursor.y = g.size[2] - 1
\* the cell a print of ch with pen p writes
PenCell(ch, p) ==
    [ch |-> ch, fg |-> p.fg, bg |-> p.bg, bold |-> p.bold, italic |-> FALSE,
     underline |-> FALSE, strikethrough |-> FALSE]
\* the step just taken read `chunk` from the PTY, the parser being free to
\* start a sequence (no OSC string was open)
Read(chunk) == last' = Op("read", chunk, <<0, 0>>) /\ parser.state # "OscString"

\* C1: whenever the grid has at least one column and one row, the cursor
\* lies inside it: cursor.x < cols and cursor.y < rows, after any sequence
\* of reads (prints, controls, CSI and OSC dispatches) and resizes.
C1_CursorInBounds ==
    NonEmpty(grid) =>
        grid.cursor.x < grid.size[1] /\ grid.cursor.y < grid.size[2]

\* C1 witness: after a resize to a smaller non-empty grid, a read has moved
\* the cursor to the bottom-right cell
C1_Witness ==
    /\ nops = 2 /\ last.op = "read"
    /\ NonEmpty(grid) /\ grid.size # <<MaxCols, MaxRows>>
    /\ grid.size[1] >= 2
    /\ AtCorner(grid)

\* C2: the cell matrix has size.rows rows of size.cols cells each and
\* dirty_lines has size.rows entries, size being the argument of new or of
\* the most recent resize.
C2_GridShape ==
    /\ grid.size = applied_size
    /\ Len(grid.cells) = grid.size[2]
    /\ \A j \in 1..Len(grid.cells) : Len(grid.cells[j]) = grid.size[1]
    /\ Len(grid.dirty_lines) = grid.size[2]

\* C2 witness: a shrink that keeps a printed cell
C2_Witness ==
    /\ last.op = "resize" /\ grid.size = <<2, 1>>
    /\ grid.cells[1][1].ch = 65

\* C2 witness of the scroll: a full row printed on the last row has scrolled
C2_WitnessScroll ==
    /\ last = Op("read", Letters(MaxCols), <<0, 0>>)
    /\ nops = 2 /\ grid.cursor.y = MaxRows - 1
    /\ RowChars(grid.cells[MaxRows - 1]) = Letters(MaxCols)

\* C6 (as claimed): no grid operation or dispatch panics, whatever the
\* child writes and whatever size a resize asks for, 0 included.
C6_NoPanic == rpc # "panicked"

\* C7: ESC [ 9 9 z changes neither the cells, the cursor, the title nor the
\* pen and leaves the parser in Ground; the Q after it is printed at the
\* cursor position held before the sequence (and, like every print into the
\* bottom-right cell, is then scrolled up one row).
C7_UnknownCsiIgnored ==
    [][/\ Read(UnknownCsi) =>
            /\ grid' = grid /\ pen' = pen
            /\ parser'.state = "Ground" /\ rpc' = "read"
       /\ (Read(UnknownCsiQ) /\ NonEmpty(grid)) =>
            /\ pen' = pen /\ grid'.title = grid.title
            /\ parser'.state = "Ground" /\ rpc' = "read"
            /\ IF ~AtCorner(grid)
               THEN /\ grid'.cells =
                          [grid.cells EXCEPT
                              ![grid.cursor.y + 1][grid.cursor.x + 1] =
                                  PenCell(81, pen)]
                    /\ grid'.cursor.x = IF grid.cursor.x < grid.size[1] - 1
                                        THEN grid.cursor.x + 1 ELSE 0
               ELSE grid.size[2] >= 2 =>
                       CellAt(grid', grid.cursor.x, grid.cursor.y - 1)
                           = PenCell(81, pen)
      ]_vars

\* C7 witness: the sequence and Q arrived after two printed characters
C7_Witness ==
    /\ last = Op("read", UnknownCsiQ, <<0, 0>>)
    /\ RowChars(grid.cells[1]) = <<65, 66, 81>>

\* a row of the first n letters written with pen p
LettersRow(n, p) == [i \in 1..n |-> PenCell(64 + i, p)]

\* the step just taken printed a full row of letters from column 0 of a
\* non-empty grid, the parser being in Ground
FullRowRead ==
    /\ NonEmpty(grid)
    /\ last' = Op("read", Letters(grid.size[1]), <<0, 0>>)
    /\ parser.state = "Ground"
    /\ grid.cursor.x = 0

\* C8 (as claimed): after printing cols characters from column 0 of row r
\* the cursor is at (0, r + 1), or at column 0 of the last row when r was
\* the last row, and in both cases some row of the grid holds all cols
\* characters in order.
C8_FullRowKept ==
    [][FullRowRead =>
          /\ grid'.cursor.x = 0
          /\ grid'.cursor.y = IF grid.cursor.y < grid.size[2] - 1
                              THEN grid.cursor.y + 1 ELSE grid.size[2] - 1
          /\ \E j \in 1..Len(grid'.cells) :
                RowChars(grid'.cells[j]) = Letters(grid.size[1])
      ]_vars

\* C8 (amended): the cursor ends as claimed.  When r is not the last row,
\* row r holds the characters and no other row changes.  When r is the last
\* row exactly one scroll_up(1) occurs: every row moves up by one, so the
\* characters are in row rows - 2 and the last row is blank; on a one-row
\* grid the scroll discards the row just printed and the grid is blank.
C8_FullRowPrinted ==
    [][FullRowRead =>
          LET cols == grid.size[1]
              rows == grid.size[2]
              r == grid.cursor.y
              written == [grid.cells EXCEPT ![r + 1] = LettersRow(cols, pen)]
          IN  /\ grid'.cursor.x = 0
              /\ grid'.size = grid.size
              /\ IF r < rows - 1
                 THEN /\ grid'.cursor.y = r + 1
                      /\ grid'.cells = written
                 ELSE /\ grid'.cursor.y = rows - 1
                      /\ grid'.cells = Tail(written) \o <<BlankRow(cols)>>
                      /\ rows >= 2 =>
                            RowChars(grid'.cells[rows - 1]) = Letters(cols)
                      /\ rows = 1 => grid'.cells = <<BlankRow(cols)>>
      ]_vars

\* C8 witness: a full row was printed on the last of two rows and scrolled
\* up into the row above; the last row is blank again
C8_Witness ==
    /\ last = Op("read", Letters(grid.size[1]), <<0, 0>>)
    /\ nops = 2 /\ grid.size[2] = 2
    /\ grid.cursor = [x |-> 0, y |-> 1, visible |-> TRUE]
    /\ RowChars(grid.cells[1]) = Letters(grid.size[1])
    /\ grid.cells[2] = BlankRow(grid.size[1])
    /\ grid.dirty_lines = <<TRUE, TRUE>>

\* C8 witness of the one-row case: the row just printed is gone
C8_WitnessOneRow ==
    /\ last = Op("read", Letters(grid.size[1]), <<0, 0>>)
    /\ grid.size[2] = 1 /\ grid.size[1] >= 2
    /\ grid.cells = <<BlankRow(grid.size[1])>>
    /\ rpc = "read"

\* C9: a printed cell stores the pen of the moment; the pen is unchanged by
\* resizes and by every read that holds no SGR final byte (prints, cursor
\* moves, erases); ESC[31m A ESC[0m B writes A in red on the pen's
\* background (the default one on a fresh terminal) and B in the default
\* colours.
C9_PenApplied ==
    [][/\ last'.op = "resize" => pen' = pen
       /\ (last'.op = "read" /\ 109 \notin Range(last'.chunk)) => pen' = pen
       /\ \A c \in {65, 81, 88} :
             (/\ last' = Op("read", <<c>>, <<0, 0>>)
              /\ parser.state = "Ground"
              /\ NonEmpty(grid) /\ ~AtCorner(grid)) =>
                CellAt(grid', grid.cursor.x, grid.cursor.y) = PenCell(c, pen)
       /\ (/\ Read(RedAPlainB)
           /\ NonEmpty(grid)
           /\ grid.cursor.x + 1 < grid.size[1]
           /\ ~(grid.cursor.x + 2 = grid.size[1]
                  /\ grid.cursor.y = grid.size[2] - 1)) =>
             /\ CellAt(grid', grid.cursor.x, grid.cursor.y) =
                   [PenCell(65, pen) EXCEPT !.fg = red]
             /\ pen = PerformerNew =>
                   CellAt(grid', grid.cursor.x, grid.cursor.y).bg = background
             /\ CellAt(grid', grid.cursor.x + 1, grid.cursor.y) =
                   PenCell(66, PerformerNew)
             /\ pen' = PerformerNew
      ]_vars

\* C9 witness: after a bold, red-background pen was set, the example has
\* written A in red still bold on that background, and B in the defaults
C9_Witness ==
    /\ last = Op("read", RedAPlainB, <<0, 0>>)
    /\ nops = 2
    /\ grid.cells[1][1] = [PenCell(65, PerformerNew) EXCEPT !.fg = red, !.bg = red]
    /\ grid.cells[1][2] = PenCell(66, PerformerNew)

\* the cursor-position parameter strings with the row and column they name
PositionCases ==
    {[ps |-> <<>>, r |-> 1, c |-> 1],
     [ps |-> <<50>>, r |-> 2, c |-> 1],
     [ps |-> <<59, 50>>, r |-> 1, c |-> 2],
     [ps |-> <<50, 59, 50>>, r |-> 2, c |-> 2],
     [ps |-> <<53, 59, 49, 48>>, r |-> 5, c |-> 10]}

\* the cell CSI r;c H names on grid g
TargetX(g, c) == Min(c - 1, g.size[1] - 1)
TargetY(g, r) == Min(r - 1, g.size[2] - 1)

\* the print after CSI r;c H left ch at (x, y) of g2
KeptAt(g2, x, y, ch) == CellAt(g2, x, y).ch = ch

\* the print after CSI r;c H wrote ch at (x, y): it is there, unless (x, y)
\* is the bottom-right cell, where the print scrolls the grid: ch is then one
\* row higher and the last row is blank, or, on a one-row grid, discarded
WrittenAt(g2, x, y, ch) ==
    IF ~(x = g2.size[1] - 1 /\ y = g2.size[2] - 1)
    THEN CellAt(g2, x, y).ch = ch
    ELSE /\ g2.cells[g2.size[2]] = BlankRow(g2.size[1])
         /\ g2.size[2] >= 2 => CellAt(g2, x, y - 1).ch = ch

\* CSI r;c H / f on a non-empty grid sets the cursor to the clamped cell and
\* changes nothing else
PositionSets ==
    \A k \in PositionCases, f \in {72, 102} :
        (Read(Csi(k.ps, f)) /\ NonEmpty(grid)) =>
            grid' = [grid EXCEPT !.cursor.x = TargetX(grid, k.c),
                                 !.cursor.y = TargetY(grid, k.r)]

\* the X printed after a cursor position, in the same read or the next one
PositionThenX(Placed(_, _, _, _)) ==
    /\ \A k \in PositionCases, f \in {72, 102} :
          (/\ last = Op("read", Csi(k.ps, f), <<0, 0>>)
           /\ last' = Op("read", <<88>>, <<0, 0>>)
           /\ NonEmpty(grid)) =>
             Placed(grid', TargetX(grid, k.c), TargetY(grid, k.r), 88)
    /\ (Read(Position5x10X) /\ NonEmpty(grid)) =>
          Placed(grid', TargetX(grid, 10), TargetY(grid, 5), 88)
    /\ (Read(Position2x2X) /\ NonEmpty(grid)) =>
          Placed(grid', TargetX(grid, 2), TargetY(grid, 2), 88)

\* C10 (as claimed): CSI r;c H / f sets the cursor to (min(c-1, cols-1),
\* min(r-1, rows-1)), defaults 1, and changes no cell; after the following
\* print the character is at exactly that cell.
C10_PositionThenPrintKept == [][PositionSets /\ PositionThenX(KeptAt)]_vars

\* C10 (amended): as claimed, except that when the clamped cell is the
\* bottom-right cell of the grid the print scrolls: the character ends one
\* row above that cell, or is discarded on a one-row grid.
C10_PositionThenPrint == [][PositionSets /\ PositionThenX(WrittenAt)]_vars

\* C10 witness: ESC[2;2H X on the 3 x 2 grid: X at row 1, column 1
C10_Witness ==
    /\ last = Op("read", Position2x2X, <<0, 0>>)
    /\ grid.size = <<MaxCols, MaxRows>> /\ MaxCols > 2
    /\ CellAt(grid, 1, 1).ch = 88
    /\ grid.cursor.x = 2 /\ grid.cursor.y = 1

\* C10 witness of the clamp: ESC[5;10H on a grid shrunk to 2 x 2
C10_WitnessClamped ==
    /\ last = Op("read", Csi(<<53, 59, 49, 48>>, 72), <<0, 0>>)
    /\ nops = 2 /\ grid.size = <<2, 2>>
    /\ grid.cursor.x = 1 /\ grid.cursor.y = 1

---------------------------------------------------------------------------
(* The concurrent specification.  The reader thread and the UI thread      *)
(* interleave; the grid is an Arc<Mutex<TerminalGrid>>.  The reader takes  *)
(* the grid lock inside each performer callback (print, execute,           *)
(* csi_dispatch, osc_dispatch when it sets the title) and drops it when    *)
(* the callback returns; render and get_state hold it while they read;     *)
(* resize_terminal locks pty_master, resizes the PTY, drops that guard,    *)
(* and only then locks the grid.                                           *)

\* calls of the UI thread plus reads of the reader thread in one behaviour:
\* a read, a resize and one more request of the caller
ConcMaxOps == 3

\* a lock() that does not wait for the guard to be dropped
MutexFree_always(lock) == TRUE
\* Mutex::lock returns once no guard is alive
MutexFree(lock) == lock = "none"

\* a guard that is never dropped
MutexUnlock_leak(lock, who) == lock
\* the MutexGuard goes out of scope
MutexUnlock(lock, who) == IF lock = who THEN "none" ELSE lock

\* "AB", LF, ESC[2J, OSC 0;t BEL, ESC 7
ConcChunks ==
    {<<65, 66>>, <<10>>, Csi(<<50>>, 74), <<27, 93, 48, 59, 116, 7>>,
     <<27, 55>>}

\* the byte is handed to Perform::print
IsPrint(ps, b) == ps.state = "Ground" /\ ~IsExecute(b) /\ b \in 32..127

\* where the reader goes after a byte: the next byte, or the next read
AfterByte(rest) == IF rest = <<>> THEN "read" ELSE "advance"

\* reader.read(&mut buffer) returns Ok(n), n > 0
ReaderReturns(chunk) ==
    /\ rpc = "read"
    /\ nops < ConcMaxOps
    /\ buf' = chunk
    /\ rpc' = "advance"
    /\ last' = Op("read", chunk, <<0, 0>>)
    /\ nops' = nops + 1
    /\ UNCHANGED ioVars
    /\ UNCHANGED <<grid, pen, parser, pty_size, cpc, grid_lock, poisoned,
                   snap, want, overflow_checks, applied_size>>

\* parser.advance on a byte that calls no callback, or one that returns
\* without locking the grid
ReaderAdvanceFree ==
    /\ rpc = "advance"
    /\ LET M == Advance(Machine(grid, pen, parser), Head(buf), FALSE)
       IN  /\ M.locks = 0
           /\ parser' = M.parser
    /\ buf' = Tail(buf)
    /\ rpc' = AfterByte(Tail(buf))
    /\ UNCHANGED ioVars
    /\ UNCHANGED <<grid, pen, pty_size, cpc, grid_lock, poisoned, snap, want,
                   overflow_checks, applied_size, last, nops>>

\* parser.advance enters a callback: self.grid.lock().unwrap(); print then
\* stores the character (put_char) before it moves the cursor
ReaderLock ==
    /\ rpc = "advance"
    /\ Advance(Machine(grid, pen, parser), Head(buf), FALSE).locks > 0
    /\ MutexFree(grid_lock)
    /\ grid_lock' = "reader"
    /\ rpc' = "in_op"
    /\ grid' = IF IsPrint(parser, Head(buf))
               THEN put_char(grid, Head(buf), pen.fg, pen.bg, pen.bold)
               ELSE grid
    /\ UNCHANGED ioVars
    /\ UNCHANGED <<pen, parser, pty_size, cpc, poisoned, buf, snap, want,
                   overflow_checks, applied_size, last, nops>>

\* the callback finishes its work and returns, dropping the guard; a panic
\* unwinds through the guard and poisons the mutex
ReaderUnlock ==
    /\ rpc = "in_op"
    /\ \E oc \in Builds :
          LET W == Advance(Machine(grid, pen, parser), Head(buf), FALSE)
              M == IF oc THEN Advance(Machine(grid, pen, parser), Head(buf), TRUE)
                   ELSE W
          IN  /\ oc => W.overflow
              /\ grid' = M.grid
              /\ pen' = M.pen
              /\ parser' = M.parser
              /\ rpc' = IF M.panic THEN "panicked" ELSE AfterByte(Tail(buf))
              /\ poisoned' = (poisoned \/ M.panic)
              /\ overflow_checks' = IF M.overflow
                                    THEN (IF oc THEN "on" ELSE "off")
                                    ELSE overflow_checks
    /\ grid_lock' = MutexUnlock(grid_lock, "reader")
    /\ buf' = Tail(buf)
    /\ UNCHANGED ioVars
    /\ UNCHANGED <<pty_size, cpc, snap, want, applied_size, last, nops>>

\* render: terminal_grid.lock().unwrap(); get_state: if let Ok(grid) =
\* terminal_grid.lock().  A poisoned mutex panics the first and makes the
\* second skip its grid fields.
SnapshotLock(by) ==
    /\ cpc = "idle"
    /\ nops < ConcMaxOps
    /\ MutexFree(grid_lock)
    /\ IF poisoned
       THEN /\ cpc' = IF by = "render" THEN "panicked" ELSE cpc
            /\ UNCHANGED <<grid_lock, snap>>
       ELSE /\ cpc' = "snap_first"
            /\ grid_lock' = "caller"
            /\ snap' = [NoSnap EXCEPT !.by = by]
    /\ last' = Op(by, <<>>, <<0, 0>>)
    /\ nops' = nops + 1
    /\ UNCHANGED ioVars
    /\ UNCHANGED <<grid, pen, parser, pty_size, rpc, poisoned, buf, want,
                   overflow_checks, applied_size>>

\* render iterates grid.cells; get_state reads grid.size and grid.title
SnapshotFirst ==
    /\ cpc = "snap_first"
    /\ snap' = IF snap.by = "render"
               THEN [snap EXCEPT !.cells = grid.cells]
               ELSE [snap EXCEPT !.size = grid.size, !.title = grid.title]
    /\ cpc' = "snap_rest"
    /\ UNCHANGED ioVars
    /\ UNCHANGED <<grid, pen, parser, pty_size, rpc, grid_lock, poisoned, buf,
                   want, overflow_checks, applied_size, last, nops>>

\* render reads grid.cursor and grid.size; get_state reads grid.cursor
SnapshotRest ==
    /\ cpc = "snap_rest"
    /\ snap' = IF snap.by = "render"
               THEN [snap EXCEPT !.cursor = grid.cursor, !.size = grid.size]
               ELSE [snap EXCEPT !.cursor = grid.cursor]
    /\ cpc' = "snapped"
    /\ UNCHANGED ioVars
    /\ UNCHANGED <<grid, pen, parser, pty_size, rpc, grid_lock, poisoned, buf,
                   want, overflow_checks, applied_size, last, nops>>

\* variant of SnapshotUnlock: render goes on to resize_terminal with the
\* guard still alive
SnapshotUnlock_keeps(cols, rows) ==
    /\ cpc = "snapped"
    /\ IF snap.by = "render" /\ <<cols, rows>> # grid.size
       THEN want' = <<cols, rows>> /\ cpc' = "resize_pty" /\ grid_lock' = grid_lock
       ELSE /\ want' = want /\ cpc' = "idle"
            /\ grid_lock' = MutexUnlock(grid_lock, "caller")
    /\ UNCHANGED ioVars
    /\ UNCHANGED <<grid, pen, parser, pty_size, rpc, poisoned, buf, snap,
                   overflow_checks, applied_size, last, nops>>

\* the guard is dropped; render, when the area now holds cols x rows cells
\* and the grid is of another size, goes on to resize_terminal(cols, rows)
SnapshotUnlock(cols, rows) ==
    /\ cpc = "snapped"
    /\ grid_lock' = MutexUnlock(grid_lock, "caller")
    /\ IF snap.by = "render" /\ <<cols, rows>> # grid.size
       THEN want' = <<cols, rows>> /\ cpc' = "resize_pty"
       ELSE want' = want /\ cpc' = "idle"
    /\ UNCHANGED ioVars
    /\ UNCHANGED <<grid, pen, parser, pty_size, rpc, poisoned, buf, snap,
                   overflow_checks, applied_size, last, nops>>

\* handle_message(Resize) or the API method resize calls resize_terminal
ResizeRequest(cols, rows) ==
    /\ cpc = "idle"
    /\ nops < ConcMaxOps
    /\ want' = <<cols, rows>>
    /\ cpc' = "resize_pty"
    /\ last' = Op("resize", <<>>, <<cols, rows>>)
    /\ nops' = nops + 1
    /\ UNCHANGED ioVars
    /\ UNCHANGED <<grid, pen, parser, pty_size, rpc, grid_lock, poisoned, buf,
                   snap, overflow_checks, applied_size>>

\* resize_terminal, first block: pty_master.lock(), master.resize(..) whose
\* error is dropped; the pty_master guard ends with the block
ResizePty ==
    /\ cpc = "resize_pty"
    /\ \E pty_ok \in BOOLEAN :
          pty_size' = IF pty_ok THEN want ELSE pty_size
    /\ cpc' = "resize_grid"
    /\ UNCHANGED ioVars
    /\ UNCHANGED <<grid, pen, parser, rpc, grid_lock, poisoned, buf, snap,
                   want, overflow_checks, applied_size, last, nops>>

\* resize_terminal, second block: terminal_grid.lock().unwrap() and
\* grid.resize(cols, rows)
ResizeGrid ==
    /\ cpc = "resize_grid"
    /\ MutexFree(grid_lock)
    /\ IF poisoned
       THEN cpc' = "panicked" /\ UNCHANGED <<grid, applied_size>>
       ELSE /\ cpc' = "idle"
            /\ grid' = resize(grid, want[1], want[2])
            /\ applied_size' = want
    /\ UNCHANGED ioVars
    /\ UNCHANGED <<pen, parser, pty_size, rpc, grid_lock, poisoned, buf, snap,
                   want, overflow_checks, last, nops>>

NextConc ==
    \/ \E chunk \in ConcChunks : ReaderReturns(chunk)
    \/ ReaderAdvanceFree
    \/ ReaderLock
    \/ ReaderUnlock
    \/ \E by \in {"render", "get_state"} : SnapshotLock(by)
    \/ SnapshotFirst
    \/ SnapshotRest
    \/ \E cols \in 0..MaxCols, rows \in 0..MaxRows : SnapshotUnlock(cols, rows)
    \/ \E cols \in 0..MaxCols, rows \in 0..MaxRows : ResizeRequest(cols, rows)
    \/ ResizePty
    \/ ResizeGrid

SpecConc == Init /\ [][NextConc]_vars

---------------------------------------------------------------------------
(* Properties of the concurrent specification.                             *)

\* C3: a snapshot of the grid taken by render or get_state is never torn:
\* what the caller has read equals the grid as it is while the caller still
\* holds the lock, and the reader is not in the middle of a print or a
\* dispatch (a character stored, cursor not yet advanced) at that time.
C3_SnapshotNotTorn ==
    cpc \in {"snap_first", "snap_rest", "snapped"} =>
        /\ rpc # "in_op"
        /\ grid_lock = "caller"
        /\ (cpc # "snap_first" /\ snap.by = "render") => snap.cells = grid.cells
        /\ (cpc # "snap_first" /\ snap.by = "get_state") =>
               snap.size = grid.size /\ snap.title = grid.title
        /\ cpc = "snapped" => snap.cursor = grid.cursor
        /\ (cpc = "snapped" /\ snap.by = "render") => snap.size = grid.size

\* C3 witness: render completed a snapshot between the prints of 'A' and
\* of 'B' of one read; the reader waits for the lock with 'B' in hand
C3_Witness ==
    /\ cpc = "snapped" /\ snap.by = "render"
    /\ rpc = "advance" /\ buf = <<66>>
    /\ snap.cells[1][1].ch = 65 /\ snap.cursor.x = 1

\* C3 witness for get_state: the snapshot carries a title set by OSC 0
C3_WitnessState ==
    /\ cpc = "snapped" /\ snap.by = "get_state"
    /\ snap.title = <<116>> /\ rpc = "read"

\* C4 as stated: the PTY and the grid change size as one step with respect
\* to the reader, so a reader callback always finds the two sizes equal.
C4_ResizeAtomic == rpc = "in_op" => pty_size = grid.size

\* C5: the reader holds the grid lock exactly while it is inside one print
\* or one dispatch: never while it is blocked in read, never between two
\* bytes, and the lock is released after each single callback.
C5_LockPerCallback == (grid_lock = "reader") <=> (rpc = "in_op")

\* C5 witness: the reader is back in its blocking read, a chunk processed,
\* while the caller holds the grid lock and reads
C5_Witness ==
    /\ rpc = "read" /\ last.op = "render" /\ nops = 2
    /\ grid_lock = "caller" /\ cpc = "snap_rest"
    /\ grid.size = <<MaxCols, MaxRows>>
    /\ grid.cells[1][2].ch = 66

\* C5 witness: the reader inside a callback, holding the lock, the caller
\* between the two halves of resize_terminal
C5_WitnessHeld ==
    /\ rpc = "in_op" /\ grid_lock = "reader" /\ cpc = "resize_grid"

---------------------------------------------------------------------------
(* Properties of single sequences and key translation.                     *)

AllDefault(g) ==
    \A j \in 1..Len(g.cells) : \A i \in 1..Len(g.cells[j]) :
        g.cells[j][i] = DefaultCell

\* C11: CSI 2 J, read with the parser free to start a sequence, from any
\* grid and any cursor position, leaves every cell the default cell and the
\* cursor at (0, 0); size, title and pen are unchanged.
C11_EraseDisplayAll ==
    [][Read(Csi(<<50>>, 74)) =>
          /\ AllDefault(grid')
          /\ grid'.cursor.x = 0 /\ grid'.cursor.y = 0
          /\ grid'.size = grid.size
          /\ Len(grid'.cells) = Len(grid.cells)
          /\ grid'.title = grid.title
          /\ pen' = pen
          /\ rpc' = "read"
      ]_vars

\* C11 witness: ESC[2J was read as the second operation with a red pen; the
\* full grid is blank, the cursor home, the pen still red
C11_Witness ==
    /\ last = Op("read", Csi(<<50>>, 74), <<0, 0>>)
    /\ nops = 2 /\ pen.fg = red
    /\ grid.size = <<MaxCols, MaxRows>> /\ AllDefault(grid)
    /\ grid.cursor.x = 0 /\ grid.cursor.y = 0

---------------------------------------------------------------------------
(* The grid specification: the public methods of TerminalGrid applied      *)
(* directly, one call per step, to a grid built with new, move_cursor and  *)
(* put_char.                                                               *)

GridMaxOps == 1

\* new(cols, rows), then the first k cells in row-major order written with
\* the letters 'A', 'B', ... by move_cursor and put_char
RECURSIVE FilledGrid(_, _, _)
FilledGrid(cols, rows, k) ==
    IF k = 0 THEN TerminalGridNew(cols, rows)
    ELSE put_char(move_cursor(FilledGrid(cols, rows, k - 1),
                              (k - 1) % cols, (k - 1) \div cols),
                  64 + k, foreground, background, FALSE)

GridInputs ==
    UNION {{move_cursor(FilledGrid(cols, rows, k), x, y) :
               k \in 0..(cols * rows), x \in 0..cols, y \in 0..rows} :
           cols \in 0..MaxCols, rows \in 0..MaxRows}

InitGrid ==
    /\ grid \in GridInputs
    /\ pty_size = grid.size
    /\ applied_size = grid.size
    /\ pen = PerformerNew
    /\ parser = ParserNew
    /\ rpc = "read"
    /\ cpc = "idle"
    /\ grid_lock = "none"
    /\ poisoned = FALSE
    /\ buf = <<>>
    /\ snap = NoSnap
    /\ want = <<0, 0>>
    /\ overflow_checks = "unknown"
    /\ last = Op("init", <<>>, <<0, 0>>)
    /\ nops = 0
    /\ writer = TRUE
    /\ pty_in = <<>>
    /\ kb = NoKb

\* a call of a TerminalGrid method that returns: the grid is g2
GridCall(op, args, g2) ==
    /\ cpc = "idle"
    /\ nops < GridMaxOps
    /\ grid' = g2
    /\ applied_size' = g2.size
    /\ last' = Op(op, <<>>, args)
    /\ nops' = nops + 1
    /\ UNCHANGED ioVars
    /\ UNCHANGED <<pen, parser, pty_size, rpc, cpc, grid_lock, poisoned, buf,
                   snap, want, overflow_checks>>

GridPutChar(ch) ==
    GridCall("put_char", <<ch, 0>>, put_char(grid, ch, red, background, TRUE))

GridMoveCursor(x, y) == GridCall("move_cursor", <<x, y>>, move_cursor(grid, x, y))

GridClearLine(y) == GridCall("clear_line", <<y, 0>>, clear_line(grid, y))

GridResize(cols, rows) ==
    GridCall("resize", <<cols, rows>>, resize(grid, cols, rows))

\* scroll_up(lines); cells.remove(0) panics on a matrix without rows
GridScrollUp(lines) ==
    IF Len(grid.cells) >= 1
    THEN GridCall("scroll_up", <<lines, 0>>, scroll_up(grid, lines))
    ELSE /\ cpc = "idle"
         /\ nops < GridMaxOps
         /\ cpc' = "panicked"
         /\ last' = Op("scroll_up", <<>>, <<lines, 0>>)
         /\ nops' = nops + 1
         /\ UNCHANGED ioVars
         /\ UNCHANGED <<grid, pen, parser, pty_size, rpc, grid_lock, poisoned,
                        buf, snap, want, overflow_checks, applied_size>>

NextGrid ==
    \/ \E ch \in {88} : GridPutChar(ch)
    \/ \E x \in 0..MaxCols, y \in 0..MaxRows : GridMoveCursor(x, y)
    \/ \E y \in 0..MaxRows : GridClearLine(y)
    \/ \E cols \in 0..(MaxCols + 1), rows \in 0..(MaxRows + 2) :
          GridResize(cols, rows)
    \/ \E lines \in 1..(MaxRows + 1) : GridScrollUp(lines)

SpecGrid == InitGrid /\ [][NextGrid]_vars

\* the step just taken was the call op(a, b) on the grid
Called(op, a, b) == last' = Op(op, <<>>, <<a, b>>) /\ cpc' = "idle"

\* C12: resize(c2, r2) on a c x r grid gives a c2 x r2 grid in which the
\* cell at (x, y) is the old one for x < min(c, c2), y < min(r, r2) and the
\* default cell anywhere else, and sets the cursor to (min(cursor.x, c2-1),
\* min(cursor.y, r2-1)), a dimension of 0 clamping the coordinate to 0.
C12_ResizeKeepsTopLeft ==
    [][\A c2 \in 0..(MaxCols + 1), r2 \in 0..(MaxRows + 2) :
          Called("resize", c2, r2) =>
             /\ grid'.size = <<c2, r2>>
             /\ Len(grid'.cells) = r2
             /\ \A y \in 0..(r2 - 1) :
                   /\ Len(grid'.cells[y + 1]) = c2
                   /\ \A x \in 0..(c2 - 1) :
                         CellAt(grid', x, y) =
                            IF x < Min(grid.size[1], c2) /\ y < Min(grid.size[2], r2)
                            THEN CellAt(grid, x, y) ELSE DefaultCell
             /\ grid'.cursor.x = Min(grid.cursor.x, IF c2 = 0 THEN 0 ELSE c2 - 1)
             /\ grid'.cursor.y = Min(grid.cursor.y, IF r2 = 0 THEN 0 ELSE r2 - 1)
             /\ grid'.title = grid.title
      ]_vars

\* C12 witness: the 2 x 2 grid AB/CD grown to 4 x 4: AB/CD at rows 0-1,
\* columns 0-1, default cells around them
C12_Witness ==
    /\ last = Op("resize", <<>>, <<4, 4>>)
    /\ grid.size = <<4, 4>>
    /\ RowChars(grid.cells[1]) = <<65, 66, 32, 32>>
    /\ RowChars(grid.cells[2]) = <<67, 68, 32, 32>>
    /\ grid.cells[3] = BlankRow(4) /\ grid.cells[4] = BlankRow(4)

\* C12 witness of a shrink: AB/CD cut to its first column, the cursor
\* brought back from column 1 to column 0
C12_WitnessShrink ==
    /\ last = Op("resize", <<>>, <<1, 2>>)
    /\ grid.size = <<1, 2>>
    /\ RowChars(grid.cells[1]) = <<65>> /\ RowChars(grid.cells[2]) = <<67>>
    /\ grid.cursor.x = 0 /\ grid.cursor.y = 1

\* C13: scroll_up(n) on a grid of R rows, 1 <= n <= R, discards the old rows
\* 0..n-1: new row i is old row i + n for i < R - n, the last n rows are
\* default cells of the grid's width, the row count stays R, every row is
\* flagged dirty; size, cursor and title are unchanged.
C13_ScrollUp ==
    [][\A n \in 1..(MaxRows + 1) :
          (Called("scroll_up", n, 0) /\ n <= grid.size[2]) =>
             LET R == grid.size[2]
             IN  /\ Len(grid'.cells) = R
                 /\ \A i \in 1..(R - n) : grid'.cells[i] = grid.cells[i + n]
                 /\ \A i \in (R - n + 1)..R :
                       grid'.cells[i] = BlankRow(grid.size[1])
                 /\ grid'.dirty_lines = [j \in 1..R |-> TRUE]
                 /\ grid'.size = grid.size
                 /\ grid'.cursor = grid.cursor
                 /\ grid'.title = grid.title
      ]_vars

\* C13 witness: scroll_up(1) on the full grid of two rows: the letters of
\* the old second row are in the first, the second is blank
C13_Witness ==
    /\ last = Op("scroll_up", <<>>, <<1, 0>>)
    /\ grid.size = <<MaxCols, 2>>
    /\ RowChars(grid.cells[1]) = [i \in 1..MaxCols |-> 64 + MaxCols + i]
    /\ grid.cells[2] = BlankRow(MaxCols)

\* C13 witness for n = R = 2: both rows are blank, the cursor stays at the
\* bottom-right cell
C13_WitnessAll ==
    /\ last = Op("scroll_up", <<>>, <<2, 0>>)
    /\ grid.size = <<MaxCols, 2>> /\ AllDefault(grid)
    /\ grid.cursor.x = MaxCols - 1 /\ grid.cursor.y = 1

\* the parameter bytes of a cursor move and the N the sequence names, an
\* omitted N counting as 1
MoveCases ==
    {[ps |-> <<>>, n |-> 1], [ps |-> <<49>>, n |-> 1], [ps |-> <<50>>, n |-> 2]}

\* the cursor of g moved by n in the direction of the final byte f, clamped
MovedCursor(g, f, n) ==
    CASE f = 65 -> [g.cursor EXCEPT !.y = IF @ >= n THEN @ - n ELSE 0]
      [] f = 66 -> [g.cursor EXCEPT !.y = Min(@ + n, g.size[2] - 1)]
      [] f = 67 -> [g.cursor EXCEPT !.x = Min(@ + n, g.size[1] - 1)]
      [] f = 68 -> [g.cursor EXCEPT !.x = IF @ >= n THEN @ - n ELSE 0]

\* C14 as stated: on a grid with at least one cell, CSI N A / B / C / D
\* moves the cursor up / down / forward / back by N, an omitted N being 1,
\* clamped to the grid, and changes nothing but the cursor.
C14_CursorMoves ==
    [][\A k \in MoveCases, f \in {65, 66, 67, 68} :
          (Read(Csi(k.ps, f)) /\ NonEmpty(grid)) =>
             grid' = [grid EXCEPT !.cursor = MovedCursor(grid, f, k.n)]
      ]_vars

\* a cursor move with its N written out behaves as C14 says: the part of
\* C14 that does not depend on the default
CursorMovesExplicit ==
    [][\A k \in {c \in MoveCases : c.ps # <<>>}, f \in {65, 66, 67, 68} :
          (Read(Csi(k.ps, f)) /\ NonEmpty(grid)) =>
             grid' = [grid EXCEPT !.cursor = MovedCursor(grid, f, k.n)]
      ]_vars

\* a read of the OSC string `payload` changed nothing but the title, which
\* is now `title`
OscSets(payload, title) ==
    Read(Osc(payload)) => /\ grid' = [grid EXCEPT !.title = title]
                          /\ pen' = pen
                          /\ parser'.state = "Ground"

\* C15 as stated: OSC 0;<title> and OSC 2;<title> set the title to <title>;
\* an OSC with another leading number or without a title part leaves it
\* unchanged; no OSC changes cells, cursor or pen.
C15_OscTitle ==
    [][/\ OscSets(<<48, 59, 116>>, <<116>>)
       /\ OscSets(<<50, 59, 116>>, <<116>>)
       /\ OscSets(<<49, 59, 116>>, grid.title)
       /\ OscSets(<<48>>, grid.title)
      ]_vars

\* what the code does: only the leading number 0 sets the title; OSC 2;t is
\* ignored like any other payload
OscTitleZeroOnly ==
    [][/\ OscSets(<<48, 59, 116>>, <<116>>)
       /\ OscSets(<<50, 59, 116>>, grid.title)
       /\ OscSets(<<49, 59, 116>>, grid.title)
       /\ OscSets(<<48>>, grid.title)
      ]_vars

---------------------------------------------------------------------------
(* The input and lifecycle specification: construction of the actor, the   *)
(* two key handlers, text input, and the end of the reader thread.         *)

\* egui keys: those the handlers name, and one ("A") they do not
Keys ==
    {"Enter", "Backspace", "Tab", "ArrowUp", "ArrowDown", "ArrowLeft",
     "ArrowRight", "C", "D", "Z", "L", "A"}

\* variant of CommonKeyBytes: the bytes of ArrowLeft and ArrowRight exchanged
CommonKeyBytes_swapped(key, ctrl) ==
    CASE key = "Enter" -> <<13>>
      [] key = "Tab" -> <<9>>
      [] key = "ArrowUp" -> <<27, 91, 65>>
      [] key = "ArrowDown" -> <<27, 91, 66>>
      [] key = "ArrowLeft" -> <<27, 91, 67>>
      [] key = "ArrowRight" -> <<27, 91, 68>>
      [] key = "C" /\ ctrl -> <<3>>
      [] key = "D" /\ ctrl -> <<4>>
      [] key = "Z" /\ ctrl -> <<26>>
      [] key = "L" /\ ctrl -> <<12>>
      [] OTHER -> <<>>

\* the bytes both handlers give for the keys other than Backspace; <<>> when
\* no arm matches (`_ => {}`: write_to_terminal is not called)
CommonKeyBytes(key, ctrl) ==
    CASE key = "Enter" -> <<13>>
      [] key = "Tab" -> <<9>>
      [] key = "ArrowUp" -> <<27, 91, 65>>
      [] key = "ArrowDown" -> <<27, 91, 66>>
      [] key = "ArrowLeft" -> <<27, 91, 68>>
      [] key = "ArrowRight" -> <<27, 91, 67>>
      [] key = "C" /\ ctrl -> <<3>>
      [] key = "D" /\ ctrl -> <<4>>
      [] key = "Z" /\ ctrl -> <<26>>
      [] key = "L" /\ ctrl -> <<12>>
      [] OTHER -> <<>>

\* handle_message, ActorMessage::KeyEvent { key, modifiers }
KeyEventBytes(key, ctrl) ==
    IF key = "Backspace" THEN <<8>> ELSE CommonKeyBytes(key, ctrl)

\* render, egui::Event::Key { key, pressed, modifiers }
RenderKeyBytes(key, ctrl) ==
    IF key = "Backspace" THEN <<127>> ELSE CommonKeyBytes(key, ctrl)

\* variant of write_all: the bytes are queued ahead of the earlier writes
write_all_front(log, text) == <<text>> \o log
\* writer.write_all(text.as_bytes()); writer.flush(), under the writer lock:
\* the bytes follow those of every earlier write, unmodified
write_all(log, text) == Append(log, text)

\* write_to_terminal(text): write_all and flush on the stored writer, their
\* errors dropped; nothing when no writer is stored.  The state of the
\* reader thread is not consulted.
write_to_terminal(text) ==
    pty_in' = IF writer THEN write_all(pty_in, text) ELSE pty_in

\* a handler that calls write_to_terminal(text) unless text is <<>>
InputOp(op, arg, text) ==
    /\ cpc = "idle"
    /\ rpc # "unspawned"
    /\ nops < MaxOps
    /\ IF text = <<>> THEN pty_in' = pty_in ELSE write_to_terminal(text)
    /\ last' = Op(op, arg, <<0, 0>>)
    /\ nops' = nops + 1
    /\ UNCHANGED <<grid, pen, parser, pty_size, rpc, cpc, grid_lock, poisoned,
                   buf, snap, want, overflow_checks, applied_size, writer,
                   kb>>

HandleKeyEvent(key, ctrl) ==
    InputOp("key_event", <<key, ctrl>>, KeyEventBytes(key, ctrl))

RenderKey(key, ctrl, pressed) ==
    InputOp(IF pressed THEN "render_key" ELSE "render_key_release",
            <<key, ctrl>>,
            IF pressed THEN RenderKeyBytes(key, ctrl) ELSE <<>>)

\* ActorMessage::TextInput(text), egui::Event::Text(text), API method write
TextInput(text) == InputOp("text", text, text)

\* "\x1b[2J\x1b[H"
ClearScreenHome == <<27, 91, 50, 74, 27, 91, 72>>

\* API method clear: write_to_terminal("\x1b[2J\x1b[H"), Ok(Success); the
\* grid is not locked
ApiClear == InputOp("api_clear", ClearScreenHome, ClearScreenHome)

\* TerminalActor::new() before spawn_shell: grid, parser, no writer
InitIo ==
    /\ grid = TerminalGridNew(MaxCols, MaxRows)
    /\ pty_size = <<MaxCols, MaxRows>>
    /\ applied_size = <<MaxCols, MaxRows>>
    /\ pen = PerformerNew
    /\ parser = ParserNew
    /\ rpc = "unspawned"
    /\ cpc = "idle"
    /\ grid_lock = "none"
    /\ poisoned = FALSE
    /\ buf = <<>>
    /\ snap = NoSnap
    /\ want = <<0, 0>>
    /\ overflow_checks = "unknown"
    /\ last = Op("init", <<>>, <<0, 0>>)
    /\ nops = 0
    /\ writer = FALSE
    /\ pty_in = <<>>
    /\ kb = NoKb

\* the ways spawn_shell can go: every step succeeds, or openpty,
\* spawn_command, try_clone_reader or take_writer returns Err
SpawnOutcomes ==
    {"spawned", "openpty_failed", "spawn_command_failed",
     "clone_reader_failed", "take_writer_failed"}
\* allocating the PTY or starting the shell failed
SpawnFailures == {"openpty_failed", "spawn_command_failed"}

\* spawn_shell, called by new(): each Err meets an .expect(..) and panics
\* in the constructing thread; take_writer runs after thread::spawn
SpawnShell(outcome) ==
    /\ rpc = "unspawned"
    /\ cpc = "idle"
    /\ cpc' = IF outcome = "spawned" THEN "idle" ELSE "panicked"
    /\ rpc' = IF outcome \in {"spawned", "take_writer_failed"}
              THEN "read" ELSE "unspawned"
    /\ writer' = (outcome = "spawned")
    /\ last' = Op(outcome, <<>>, <<0, 0>>)
    /\ UNCHANGED <<grid, pen, parser, pty_size, grid_lock, poisoned, buf, snap,
                   want, overflow_checks, applied_size, nops, pty_in, kb>>

\* variant of ReaderEof: the end of the session resets the grid
ReaderEof_clears ==
    /\ rpc = "read"
    /\ rpc' = "exited"
    /\ grid' = TerminalGridNew(grid.size[1], grid.size[2])
    /\ last' = Op("eof", <<>>, <<0, 0>>)
    /\ UNCHANGED <<pen, parser, pty_size, cpc, grid_lock, poisoned, buf,
                   snap, want, overflow_checks, applied_size, nops>>
    /\ UNCHANGED ioVars

\* reader.read returns Ok(0) or Err(_): `_ => break`, the thread ends; no
\* field of the actor is written
ReaderEof ==
    /\ rpc = "read"
    /\ rpc' = "exited"
    /\ last' = Op("eof", <<>>, <<0, 0>>)
    /\ UNCHANGED <<grid, pen, parser, pty_size, cpc, grid_lock, poisoned, buf,
                   snap, want, overflow_checks, applied_size, nops>>
    /\ UNCHANGED ioVars

\* an egui event of a frame: typed text, or a pressed key
TextEvent(text) == [kind |-> "text", text |-> text, key |-> "", ctrl |-> FALSE]
KeyPress(key, ctrl) == [kind |-> "key", text |-> <<>>, key |-> key, ctrl |-> ctrl]

\* what render pushes to input_events for one event (<<>>: nothing)
RenderEventBytes(e) ==
    IF e.kind = "text" THEN e.text ELSE RenderKeyBytes(e.key, e.ctrl)

\* input_events after the ui.input closure: one entry per event that
\* pushed something, in event order
RECURSIVE InputEvents(_)
InputEvents(evs) ==
    IF evs = <<>> THEN <<>>
    ELSE (IF RenderEventBytes(Head(evs)) = <<>> THEN <<>>
          ELSE <<RenderEventBytes(Head(evs))>>) \o InputEvents(Tail(evs))

\* for input in input_events { self.write_to_terminal(&input); }
RECURSIVE WriteEach(_, _)
WriteEach(log, inputs) ==
    IF inputs = <<>> THEN log
    ELSE WriteEach(IF writer THEN write_all(log, Head(inputs)) ELSE log,
                   Tail(inputs))

\* frames of two events
Frames ==
    {<<TextEvent(<<97>>), KeyPress("Enter", FALSE)>>,
     <<KeyPress("ArrowUp", FALSE), TextEvent(<<97, 98>>)>>,
     <<KeyPress("A", FALSE), TextEvent(<<97>>)>>,
     <<KeyPress("C", TRUE), KeyPress("Backspace", FALSE)>>}

\* render with the events `evs` in the frame: collected, then written
RenderFrame(evs) ==
    /\ cpc = "idle"
    /\ rpc # "unspawned"
    /\ nops < MaxOps
    /\ pty_in' = WriteEach(pty_in, InputEvents(evs))
    /\ last' = Op("render_frame", evs, <<0, 0>>)
    /\ nops' = nops + 1
    /\ UNCHANGED <<grid, pen, parser, pty_size, rpc, cpc, grid_lock, poisoned,
                   buf, snap, want, overflow_checks, applied_size, writer,
                   kb>>

\* the actor is dropped (its tab is closed, the IDE exits).  TerminalActor
\* has no Drop impl and no shutdown method: the fields go, which closes the
\* writer; the JoinHandle of the reader thread was discarded at spawn, so
\* the thread is detached and nothing waits for it.
DropActor ==
    /\ cpc = "idle"
    /\ rpc # "unspawned"
    /\ cpc' = "dropped"
    /\ writer' = FALSE
    /\ last' = Op("drop", <<>>, <<0, 0>>)
    /\ UNCHANGED <<grid, pen, parser, pty_size, rpc, grid_lock, poisoned, buf,
                   snap, want, overflow_checks, applied_size, nops, pty_in,
                   kb>>

NextIo ==
    \/ DropActor
    \/ \E evs \in Frames : RenderFrame(evs)
    \/ \E outcome \in SpawnOutcomes : SpawnShell(outcome)
    \/ \E key \in Keys, ctrl \in BOOLEAN : HandleKeyEvent(key, ctrl)
    \/ \E key \in Keys, ctrl \in BOOLEAN, pressed \in BOOLEAN :
          RenderKey(key, ctrl, pressed)
    \/ \E text \in {<<97>>, <<97, 98>>} : TextInput(text)
    \/ ApiClear
    \/ \E chunk \in {<<65>>, <<10>>} : ReaderRead(chunk)
    \/ ReaderEof

SpecIo == InitIo /\ [][NextIo]_vars

\* get_state(): the grid fields it reports (the other entries are constants
\* of the presentation: font_size, auto_scroll, scroll_offset)
get_state ==
    [cols |-> grid.size[1], rows |-> grid.size[2], title |-> grid.title,
     cursor_visible |-> grid.cursor.visible, cursor_x |-> grid.cursor.x,
     cursor_y |-> grid.cursor.y]

\* everything a caller can read from the actor: get_state, the API methods
\* get_title and get_size, and the cells render draws
CallerView == [state |-> get_state, cells |-> grid.cells]

\* the step just taken handled `key` (with or without Ctrl) on path `op`
Keyed(op, key, ctrl) == last'.op = op /\ last'.chunk = <<key, ctrl>>

\* the step just taken wrote exactly `text` to the PTY, or nothing if <<>>
Sent(text) ==
    pty_in' = IF text = <<>> THEN pty_in ELSE Append(pty_in, text)

\* the key table of C16: keys sent whatever the modifiers, keys sent with
\* Ctrl, and their bytes
PlainKeyTable ==
    {<<"Enter", <<13>>>>, <<"Tab", <<9>>>>, <<"ArrowUp", <<27, 91, 65>>>>,
     <<"ArrowDown", <<27, 91, 66>>>>, <<"ArrowRight", <<27, 91, 67>>>>,
     <<"ArrowLeft", <<27, 91, 68>>>>}
CtrlKeyTable ==
    {<<"C", <<3>>>>, <<"D", <<4>>>>, <<"Z", <<26>>>>, <<"L", <<12>>>>}

\* C16: on both input paths, Enter sends 0x0D, Tab 0x09, the arrows ESC [ A
\* / B / C / D (up, down, right, left), Ctrl+C / D / Z / L send 0x03 / 0x04
\* / 0x1A / 0x0C, each as one write of exactly those bytes; a key with no
\* mapping (a letter without Ctrl, any other key) sends nothing.
C16_KeyTranslation ==
    [][\A op \in {"key_event", "render_key"}, ctrl \in BOOLEAN :
          /\ \A e \in PlainKeyTable : Keyed(op, e[1], ctrl) => Sent(e[2])
          /\ \A e \in CtrlKeyTable :
                /\ Keyed(op, e[1], TRUE) => Sent(e[2])
                /\ Keyed(op, e[1], FALSE) => Sent(<<>>)
          /\ Keyed(op, "A", ctrl) => Sent(<<>>)
      ]_vars

\* C16 witness: ArrowLeft through the message handler, then Ctrl+Z through
\* the render loop, arrived at the PTY as ESC [ D and 0x1A
C16_Witness ==
    /\ pty_in = <<<<27, 91, 68>>, <<26>>>>
    /\ last.op = "render_key" /\ last.chunk = <<"Z", TRUE>>

\* C16 witness: an unmapped key sent nothing
C16_WitnessUnmapped ==
    /\ last.op = "key_event" /\ last.chunk = <<"A", FALSE>>
    /\ nops = 2 /\ pty_in = <<<<13>>>>

\* C17 as stated: the message handler sends for every key, Backspace
\* included, the bytes the render loop sends for it.
C17_SameBytesOnBothPaths ==
    [][\A key \in Keys, ctrl \in BOOLEAN :
          Keyed("key_event", key, ctrl) => Sent(RenderKeyBytes(key, ctrl))
      ]_vars

\* the two paths agree on every key but Backspace
SameBytesButBackspace ==
    [][\A key \in Keys \ {"Backspace"}, ctrl \in BOOLEAN :
          Keyed("key_event", key, ctrl) => Sent(RenderKeyBytes(key, ctrl))
      ]_vars

\* C18 as stated: once the reader has seen EOF or an error the engine stays
\* ended, and no later input call writes to the PTY.
C18_ClosedIsFinal ==
    [][rpc = "exited" => (rpc' = "exited" /\ pty_in' = pty_in)]_vars

\* C19 as stated: on a constructed actor, a read returning EOF or an error
\* ends the reader loop without harm to the caller, and the caller can observe the ended state:
\* what it can read from the actor is not what it read while the reader ran.
C19_EndIsObservable ==
    [][(last'.op = "eof" /\ writer) =>
          /\ rpc' = "exited"
          /\ cpc' = cpc
          /\ CallerView' # CallerView
      ]_vars

\* the part of C19 the code does: the loop ends, the caller is unharmed
ReaderEofEnds ==
    [][last'.op = "eof" => (rpc' = "exited" /\ cpc' = cpc)]_vars

\* C20 as stated: when allocating the PTY or spawning the shell fails, the
\* constructor returns to its caller (with the error), no reader thread is
\* started and no writer is stored.
C20_SpawnFailureReturned ==
    [][\A o \in SpawnFailures :
          last'.op = o =>
             /\ cpc' = "idle"
             /\ rpc' = "unspawned"
             /\ writer' = FALSE
      ]_vars

---------------------------------------------------------------------------
(* Properties of the reader thread and of the input stream.                *)

\* the reader consumed exactly the first unprocessed byte in this step, and
\* the parser is where Parser::advance on that byte leaves it
ConsumedHead ==
    /\ buf # <<>>
    /\ buf' = Tail(buf)
    /\ rpc \in {"advance", "in_op"}
    /\ rpc' # "panicked" =>
          parser' = Advance(Machine(grid, pen, parser), Head(buf), FALSE).parser

\* the bytes of a read are taken one at a time from the front, in order
BytesInOrder ==
    [][buf' # buf => \/ (buf = <<>> /\ rpc = "read" /\ rpc' = "advance")
                     \/ ConsumedHead
      ]_vars

\* C21 as stated: the single reader applies the bytes in the order read,
\* one at a time, each completely before the next, and none is skipped:
\* whenever the reader is not in the middle of a buffer (it waits in read or
\* it has stopped), every byte it read has been applied.
C21_AllBytesApplied ==
    [][/\ buf' # buf => \/ (buf = <<>> /\ rpc = "read" /\ rpc' = "advance")
                        \/ ConsumedHead
       /\ rpc' \in {"read", "panicked", "exited"} => buf' = <<>>
      ]_vars

\* the byte stream the writes of `log` form
RECURSIVE Flatten(_)
Flatten(log) == IF log = <<>> THEN <<>> ELSE Head(log) \o Flatten(Tail(log))

\* the bytes the calls of the step just taken asked to send, in call order
Requested ==
    CASE last'.op \in {"text", "api_clear"} -> last'.chunk
      [] last'.op = "key_event" ->
            IF last'.chunk[1] = "Backspace" THEN <<8>>
            ELSE CommonKeyBytes(last'.chunk[1], last'.chunk[2])
      [] last'.op = "render_key" ->
            IF last'.chunk[1] = "Backspace" THEN <<127>>
            ELSE CommonKeyBytes(last'.chunk[1], last'.chunk[2])
      [] last'.op = "render_frame" ->
            RenderEventBytes(last'.chunk[1]) \o RenderEventBytes(last'.chunk[2])
      [] OTHER -> <<>>

C23_FrameKept ==
    [][(rpc' = "exited") => grid' = grid]_vars

\* C23 witness: 'A' was printed, the session ended, a key was handled
\* afterwards; the grid still shows 'A' with the cursor after it
C23_Witness ==
    /\ rpc = "exited" /\ last.op = "key_event"
    /\ CellAt(grid, 0, 0).ch = 65 /\ grid.cursor.x = 1

\* C24 as stated: teardown closes the write side and then joins the reader:
\* it does not complete before the reader thread has left its loop.
C24_TeardownJoinsReader ==
    cpc = "dropped" => (writer = FALSE /\ rpc = "exited")

----------------------------------------------------------------------------
(* Fair scheduling of the two threads.  A thread that can take a step      *)
(* takes it: the reader works through its buffer and returns from each     *)
(* callback, the caller finishes the call it is in, and a lock() that is   *)
(* possible again and again succeeds.  Nothing obliges the child to write  *)
(* (ReaderReturns) or the caller to start a call.                          *)
SpecConcFair ==
    /\ SpecConc
    /\ WF_vars(ReaderAdvanceFree)
    /\ SF_vars(ReaderLock)
    /\ WF_vars(ReaderUnlock)
    /\ WF_vars(SnapshotFirst)
    /\ WF_vars(SnapshotRest)
    /\ WF_vars(\E cols \in 0..MaxCols, rows \in 0..MaxRows :
                   SnapshotUnlock(cols, rows))
    /\ WF_vars(ResizePty)
    /\ SF_vars(ResizeGrid)

\* the wait for the grid lock always ends: the reader holds the lock only
\* inside one callback, never while it is blocked in read, every hold of the
\* reader ends, and the lock() of a waiting resize_terminal returns (with
\* the guard, or with the poison error that unwrap turns into a panic)
LockWaitEnds ==
    /\ [](grid_lock = "reader" => rpc = "in_op")
    /\ (grid_lock = "reader") ~> (grid_lock = "none")
    /\ (cpc = "resize_grid") ~> (cpc \in {"idle", "panicked"})

\* C25 as stated: a resize_terminal that waits for the grid lock is granted
\* it and completes
C25_RequestGranted ==
    (cpc = "resize_grid") ~> (cpc = "idle")

\* C26 as stated: when the API method clear returns, every cell of the grid
\* is the default cell and the cursor is at (0, 0)
C26_ClearClearsGrid ==
    [][last'.op = "api_clear" =>
          /\ AllDefault(grid')
          /\ grid'.cursor.x = 0 /\ grid'.cursor.y = 0]_vars

----------------------------------------------------------------------------
(* Key bindings (src/src/keybindings.rs).  A string is the sequence of the *)
(* code points of its chars; a KeyCode is a record of its variant, the     *)
(* variant's name and its number (n of F(n), the code point of Char(c));   *)
(* KeyModifiers is the set of its flags.                                   *)

\* largest n of the KeyCode::F(n) considered (n is a u8 in the source)
MaxFn == 13

KeyF(n) == [kind |-> "F", name |-> "", n |-> n]
KeyChar(c) == [kind |-> "Char", name |-> "", n |-> c]
KeyNamed(name) == [kind |-> "Named", name |-> name, n |-> 0]
\* a KeyCode variant Display has no arm for
KeyOther(name) == [kind |-> "Other", name |-> name, n |-> 0]

ModFlags == {"CONTROL", "SHIFT", "ALT"}

\* KeyBinding::new
KeyBindingNew(key, modifiers) == [key |-> key, modifiers |-> modifiers]

\* the variants Display names
NamedKeys ==
    {"Enter", "Esc", "Tab", "Backspace", "Delete",
     "Home", "End", "PageUp", "PageDown", "Up",
     "Down", "Left", "Right", "Insert"}

\* the string Display writes for each of them
KeyShown ==
    [Enter |-> <<69, 110, 116, 101, 114>>,
     Esc |-> <<69, 115, 99, 97, 112, 101>>,
     Tab |-> <<84, 97, 98>>,
     Backspace |-> <<66, 97, 99, 107, 115, 112, 97, 99, 101>>,
     Delete |-> <<68, 101, 108, 101, 116, 101>>,
     Home |-> <<72, 111, 109, 101>>,
     End |-> <<69, 110, 100>>,
     PageUp |-> <<80, 97, 103, 101, 85, 112>>,
     PageDown |-> <<80, 97, 103, 101, 68, 111, 119, 110>>,
     Up |-> <<85, 112>>,
     Down |-> <<68, 111, 119, 110>>,
     Left |-> <<76, 101, 102, 116>>,
     Right |-> <<82, 105, 103, 104, 116>>,
     Insert |-> <<73, 110, 115, 101, 114, 116>>]

\* `_ => format!("{:?}", self.key)`: the variant's name
KeyDebug ==
    [BackTab |-> <<66, 97, 99, 107, 84, 97, 98>>,
     Null |-> <<78, 117, 108, 108>>]

\* char::to_uppercase, a string: ASCII letters, e-acute, and sharp s, whose
\* upper case is "SS"
to_uppercase(c) ==
    IF c \in 97..122 THEN <<c - 32>>
    ELSE IF c = 233 THEN <<201>>
    ELSE IF c = 223 THEN <<83, 83>>
    ELSE <<c>>

\* char lower-casing as str::to_lowercase applies it to each char
LowerChar(c) ==
    IF c \in 65..90 THEN c + 32
    ELSE IF c = 201 THEN 233
    ELSE c

\* str::to_lowercase
to_lowercase(s) == [i \in 1..Len(s) |-> LowerChar(s[i])]

\* char::is_lowercase on the chars considered
is_lowercase(c) == c \in 97..122 \/ c = 223 \/ c = 233

\* str::len: the number of bytes of the UTF-8 encoding
RECURSIVE len(_)
len(s) ==
    IF s = <<>> THEN 0
    ELSE (IF Head(s) < 128 THEN 1 ELSE IF Head(s) < 2048 THEN 2
          ELSE IF Head(s) < 65536 THEN 3 ELSE 4) + len(Tail(s))

\* format!("{}", n) of an unsigned number
RECURSIVE Decimal(_)
Decimal(n) ==
    IF n < 10 THEN <<48 + n>> ELSE Decimal(n \div 10) \o <<48 + (n % 10)>>

\* parts.join("+")
RECURSIVE join(_)
join(parts) ==
    IF Len(parts) = 1 THEN parts[1]
    ELSE parts[1] \o <<43>> \o join(Tail(parts))

\* s.split('+').collect(): at least one part, empty parts kept
RECURSIVE split(_)
split(s) ==
    IF \A i \in 1..Len(s) : s[i] # 43 THEN <<s>>
    ELSE LET i == CHOOSE k \in 1..Len(s) :
                      s[k] = 43 /\ \A j \in 1..(k - 1) : s[j] # 43
         IN  <<SubSeq(s, 1, i - 1)>> \o split(SubSeq(s, i + 1, Len(s)))

\* Display, the key_str match
key_string(key) ==
    CASE key.kind = "F" -> <<70>> \o Decimal(key.n)
      [] key.kind = "Char" -> to_uppercase(key.n)
      [] key.kind = "Named" -> KeyShown[key.name]
      [] OTHER -> KeyDebug[key.name]

\* impl fmt::Display for KeyBinding: Ctrl, Shift, Alt in this order, then
\* the key, joined by '+'
to_string(b) ==
    join((IF "CONTROL" \in b.modifiers THEN <<<<67, 116, 114, 108>>>> ELSE <<>>)
         \o (IF "SHIFT" \in b.modifiers THEN <<<<83, 104, 105, 102, 116>>>> ELSE <<>>)
         \o (IF "ALT" \in b.modifiers THEN <<<<65, 108, 116>>>> ELSE <<>>)
         \o <<key_string(b.key)>>)

\* Result<KeyBinding>
Ok(b) == [ok |-> TRUE, binding |-> b, err |-> ""]
Err(e) == [ok |-> FALSE, binding |-> KeyBindingNew(KeyOther("Null"), {}),
           err |-> e]

\* from_string, the modifier match on part.to_lowercase(): the flag, or
\* "" for `_ => return Err(..)`
ModifierOf(part) ==
    LET l == to_lowercase(part)
    IN  IF l = <<99, 116, 114, 108>> \/ l = <<99, 111, 110, 116, 114, 111, 108>>
        THEN "CONTROL"
        ELSE IF l = <<115, 104, 105, 102, 116>> THEN "SHIFT"
        ELSE IF l = <<97, 108, 116>> THEN "ALT"
        ELSE ""

\* from_string, the words of the key match other than f1 .. f12
KeyWords ==
    {[word |-> <<101, 110, 116, 101, 114>>, key |-> KeyNamed("Enter")],
     [word |-> <<114, 101, 116, 117, 114, 110>>, key |-> KeyNamed("Enter")],
     [word |-> <<115, 112, 97, 99, 101>>, key |-> KeyChar(32)],
     [word |-> <<101, 115, 99, 97, 112, 101>>, key |-> KeyNamed("Esc")],
     [word |-> <<101, 115, 99>>, key |-> KeyNamed("Esc")],
     [word |-> <<116, 97, 98>>, key |-> KeyNamed("Tab")],
     [word |-> <<98, 97, 99, 107, 115, 112, 97, 99, 101>>, key |-> KeyNamed("Backspace")],
     [word |-> <<100, 101, 108, 101, 116, 101>>, key |-> KeyNamed("Delete")],
     [word |-> <<100, 101, 108>>, key |-> KeyNamed("Delete")],
     [word |-> <<104, 111, 109, 101>>, key |-> KeyNamed("Home")],
     [word |-> <<101, 110, 100>>, key |-> KeyNamed("End")],
     [word |-> <<112, 97, 103, 101, 117, 112>>, key |-> KeyNamed("PageUp")],
     [word |-> <<112, 97, 103, 101, 100, 111, 119, 110>>, key |-> KeyNamed("PageDown")],
     [word |-> <<117, 112>>, key |-> KeyNamed("Up")],
     [word |-> <<100, 111, 119, 110>>, key |-> KeyNamed("Down")],
     [word |-> <<108, 101, 102, 116>>, key |-> KeyNamed("Left")],
     [word |-> <<114, 105, 103, 104, 116>>, key |-> KeyNamed("Right")],
     [word |-> <<105, 110, 115, 101, 114, 116>>, key |-> KeyNamed("Insert")]}

\* from_string, the key match on key_str.to_lowercase()
KeyOf(key_str) ==
    LET l == to_lowercase(key_str)
    IN  IF \E n \in 1..12 : l = <<102>> \o Decimal(n)
        THEN Ok(KeyBindingNew(
                 KeyF(CHOOSE n \in 1..12 : l = <<102>> \o Decimal(n)), {}))
        ELSE IF \E e \in KeyWords : e.word = l
        THEN Ok(KeyBindingNew((CHOOSE e \in KeyWords : e.word = l).key, {}))
        ELSE IF len(l) = 1 THEN Ok(KeyBindingNew(KeyChar(l[1]), {}))
        ELSE Err("Unknown key")

\* KeyBinding::from_string
from_string(s) ==
    LET parts == split(s)
        front == SubSeq(parts, 1, Len(parts) - 1)
        key_str == IF Len(parts) > 1 THEN parts[Len(parts)] ELSE s
        key == KeyOf(key_str)
    IN  IF \E i \in 1..Len(front) : ModifierOf(front[i]) = ""
        THEN Err("Unknown modifier")
        ELSE IF ~key.ok THEN key
        ELSE Ok(KeyBindingNew(key.binding.key,
                              {ModifierOf(front[i]) : i \in 1..Len(front)}))

\* KeyEvent::new(code, modifiers)
KeyEventNew(code, modifiers) == [code |-> code, modifiers |-> modifiers]

\* variant of matches: the binding's modifiers are among the event's
matches_contains(b, event) ==
    b.key = event.code /\ b.modifiers \subseteq event.modifiers

\* KeyBinding::matches
matches(b, event) ==
    b.key = event.code /\ b.modifiers = event.modifiers

\* the chars of the bindings considered: p P 1 ' ' ` + e-acute sharp-s
KeyChars == {112, 80, 49, 32, 96, 43, 233, 223}

BindingKeys ==
    {KeyF(n) : n \in 1..MaxFn} \cup {KeyNamed(k) : k \in NamedKeys}
        \cup {KeyChar(c) : c \in KeyChars} \cup {KeyOther("BackTab")}

Bindings == {KeyBindingNew(k, m) : k \in BindingKeys, m \in SUBSET ModFlags}

\* strings a user writes for a binding:
\*   ctrl+p  CTRL+SHIFT+P  Control+Return  alt+f12  ESC  Shift+Alt+pageup
\*   Hyper+P  Ctrl+Nope  Ctrl++  P  F13
TypedStrings ==
    {<<99, 116, 114, 108, 43, 112>>,
     <<67, 84, 82, 76, 43, 83, 72, 73, 70, 84, 43, 80>>,
     <<67, 111, 110, 116, 114, 111, 108, 43, 82, 101, 116, 117, 114, 110>>,
     <<97, 108, 116, 43, 102, 49, 50>>,
     <<69, 83, 67>>,
     <<83, 104, 105, 102, 116, 43, 65, 108, 116, 43, 112, 97, 103, 101, 117, 112>>,
     <<72, 121, 112, 101, 114, 43, 80>>,
     <<67, 116, 114, 108, 43, 78, 111, 112, 101>>,
     <<67, 116, 114, 108, 43, 43>>,
     <<80>>,
     <<70, 49, 51>>}

\* the key events a binding is matched against
Events ==
    {KeyEventNew(k, m) :
        k \in {KeyChar(112), KeyChar(80), KeyF(1), KeyNamed("Enter")},
        m \in SUBSET ModFlags}

NoResult == Err("")
NoEvent == KeyEventNew(KeyOther("Null"), {})
Kb(pc, b, text, result, event, matched) ==
    [pc |-> pc, binding |-> b, text |-> text, result |-> result,
     event |-> event, matched |-> matched]

\* a binding built with KeyBinding::new, or a string to parse
InitKeys ==
    /\ kb \in {Kb("new", b, <<>>, NoResult, NoEvent, FALSE) : b \in Bindings}
          \cup {Kb("typed", KeyBindingNew(KeyOther("Null"), {}), s, NoResult,
                   NoEvent, FALSE) : s \in TypedStrings}
    /\ grid = TerminalGridNew(MaxCols, MaxRows)
    /\ pty_size = <<MaxCols, MaxRows>>
    /\ applied_size = <<MaxCols, MaxRows>>
    /\ pen = PerformerNew
    /\ parser = ParserNew
    /\ rpc = "unspawned"
    /\ cpc = "idle"
    /\ grid_lock = "none"
    /\ poisoned = FALSE
    /\ buf = <<>>
    /\ snap = NoSnap
    /\ want = <<0, 0>>
    /\ overflow_checks = "unknown"
    /\ last = Op("init", <<>>, <<0, 0>>)
    /\ nops = 0
    /\ writer = FALSE
    /\ pty_in = <<>>

\* binding.to_string()
KbDisplay ==
    /\ kb.pc = "new"
    /\ kb' = [kb EXCEPT !.pc = "shown", !.text = to_string(kb.binding)]
    /\ UNCHANGED <<grid, pen, parser, pty_size, rpc, cpc, grid_lock, poisoned,
                   buf, snap, want, overflow_checks, applied_size, last, nops,
                   writer, pty_in>>

\* KeyBinding::from_string(text), of a rendered or of a written string
KbFromString ==
    /\ kb.pc \in {"shown", "typed"}
    /\ kb' = [kb EXCEPT !.pc = IF kb.pc = "shown" THEN "reparsed" ELSE "parsed",
                        !.result = from_string(kb.text)]
    /\ UNCHANGED <<grid, pen, parser, pty_size, rpc, cpc, grid_lock, poisoned,
                   buf, snap, want, overflow_checks, applied_size, last, nops,
                   writer, pty_in>>

\* binding.matches(&event)
KbMatches(event) ==
    /\ kb.pc = "new"
    /\ kb' = [kb EXCEPT !.pc = "matched", !.event = event,
                        !.matched = matches(kb.binding, event)]
    /\ UNCHANGED <<grid, pen, parser, pty_size, rpc, cpc, grid_lock, poisoned,
                   buf, snap, want, overflow_checks, applied_size, last, nops,
                   writer, pty_in>>

NextKeys ==
    \/ KbDisplay
    \/ KbFromString
    \/ \E event \in Events : KbMatches(event)

SpecKeys == InitKeys /\ [][NextKeys]_vars

\* the keys C27 speaks of: named keys, function keys, lower-case chars
RoundTripKeys ==
    {k \in BindingKeys :
        \/ k.kind \in {"Named", "F"}
        \/ k.kind = "Char" /\ is_lowercase(k.n)}

\* the keys from_string has a word for or takes as one byte
ParsedBackKeys ==
    {k \in BindingKeys :
        \/ k.kind = "Named"
        \/ k.kind = "F" /\ k.n \in 1..12
        \/ k.kind = "Char" /\ k.n < 128 /\ k.n \notin 65..90 /\ k.n # 43}

\* on those keys, with any modifiers, parsing the rendered string gives the
\* binding back
RoundTripWhereParsed ==
    (kb.pc = "reparsed" /\ kb.binding.key \in ParsedBackKeys)
        => kb.result = Ok(kb.binding)

\* C27 as stated: for a named key, a function key or a lower-case char, with
\* any subset of Ctrl/Shift/Alt, from_string(b.to_string()) is Ok(b)
C27_RoundTrip ==
    (kb.pc = "reparsed" /\ kb.binding.key \in RoundTripKeys)
        => kb.result = Ok(kb.binding)

\* modifiers and key names are parsed whatever their case
ParsedCaseInsensitively ==
    (kb.pc = "parsed") => kb.result = from_string(to_lowercase(kb.text))

\* C28: matches(event) is true exactly when the event's key code is the
\* binding's key and the event's modifier set is the binding's: the binding
\* Ctrl+P matches the event Ctrl+P and no event with other modifiers, such
\* as Shift+P or Ctrl+Shift+P.
C28_MatchesExactly ==
    (kb.pc = "matched") =>
        /\ kb.matched <=>
              KeyBindingNew(kb.event.code, kb.event.modifiers) = kb.binding
        /\ kb.binding = KeyBindingNew(KeyChar(112), {"CONTROL"}) =>
              (kb.matched <=> kb.event = KeyEventNew(KeyChar(112), {"CONTROL"}))

\* C28 witness: the binding Ctrl+P was matched against the event
\* Ctrl+Shift+P and did not match
C28_Witness ==
    /\ kb.pc = "matched"
    /\ kb.binding = KeyBindingNew(KeyChar(112), {"CONTROL"})
    /\ kb.event = KeyEventNew(KeyChar(112), {"CONTROL", "SHIFT"})
    /\ ~kb.matched

\* the binding Ctrl+P was matched against the event Ctrl+P and matched
C28_WitnessMatch ==
    /\ kb.pc = "matched"
    /\ kb.binding = KeyBindingNew(KeyChar(112), {"CONTROL"})
    /\ kb.event = KeyEventNew(KeyChar(112), {"CONTROL"})
    /\ kb.matched

\* C29 as stated: when a call of resize_terminal(cols, rows) has returned,
\* the window size of the PTY and the size of the grid are equal, also when
\* the resize of the PTY failed
C29_SizesAgreeAfterResize ==
    [][(last'.op = "resize" /\ nops' = nops + 1 /\ cpc' = "idle")
          => pty_size' = grid'.size]_vars

\* the step just taken read a single LF, the parser being in Ground and the
\* grid having a row for the cursor to be on
LineFeedRead ==
    /\ last' = Op("read", <<10>>, <<0, 0>>)
    /\ nops' = nops + 1
    /\ parser.state = "Ground"
    /\ grid.size[2] >= 1

\* C30: LF in Ground.  Above the last row the cursor goes down one row and
\* no cell changes; on the last row the rows move up by one (the top row is
\* dropped, a blank row is added at the bottom: scroll_up(1), once) and the
\* cursor stays on the last row.  The column of the cursor, the size and the
\* title are unchanged in both cases.
C30_LineFeed ==
    [][LineFeedRead =>
          /\ grid'.cursor.x = grid.cursor.x
          /\ grid'.size = grid.size /\ grid'.title = grid.title
          /\ IF grid.cursor.y < grid.size[2] - 1
             THEN /\ grid'.cursor.y = grid.cursor.y + 1
                  /\ grid'.cells = grid.cells
             ELSE /\ grid'.cursor.y = grid.size[2] - 1
                  /\ grid'.cells =
                        Tail(grid.cells) \o <<BlankRow(grid.size[1])>>]_vars

\* C30 witness: "A LF B" left A on row 0 and B on the last row with the
\* cursor behind it; the LF read next moved B up to row 0, dropped A and
\* left the cursor at column 2 of the last row
C30_Witness ==
    /\ last = Op("read", <<10>>, <<0, 0>>) /\ nops = 2
    /\ grid.size[2] = 2 /\ grid.size[1] >= 3
    /\ CellAt(grid, 0, 0).ch = 32 /\ CellAt(grid, 1, 0).ch = 66
    /\ CellAt(grid, 1, 1).ch = 32
    /\ grid.cursor.x = 2 /\ grid.cursor.y = 1

\* "AB" then LF above the last row: the cursor went down, the cells stayed
C30_WitnessDown ==
    /\ last = Op("read", <<10>>, <<0, 0>>) /\ nops = 2
    /\ grid.size = <<MaxCols, MaxRows>>
    /\ CellAt(grid, 0, 0).ch = 65 /\ CellAt(grid, 1, 0).ch = 66
    /\ grid.cursor.x = 2 /\ grid.cursor.y = 1

----------------------------------------------------------------------------
(* Single bytes and sequences read on grids of terminal width: wide enough *)
(* for a tab stop to lie inside the row.                                   *)

\* widest grid of this specification
WideCols == 10

\* grids of every width up to WideCols, blank or full of letters, with the
\* cursor anywhere
WideInputs ==
    UNION {{move_cursor(FilledGrid(cols, rows, k), x, y) :
               k \in {0, cols * rows}, x \in 0..cols, y \in 0..rows} :
           cols \in 0..WideCols, rows \in 0..MaxRows}

InitWide ==
    /\ grid \in WideInputs
    /\ pty_size = grid.size
    /\ applied_size = grid.size
    /\ pen = PerformerNew
    /\ parser = ParserNew
    /\ rpc = "read"
    /\ cpc = "idle"
    /\ grid_lock = "none"
    /\ poisoned = FALSE
    /\ buf = <<>>
    /\ snap = NoSnap
    /\ want = <<0, 0>>
    /\ overflow_checks = "unknown"
    /\ last = Op("init", <<>>, <<0, 0>>)
    /\ nops = 0
    /\ writer = TRUE
    /\ pty_in = <<>>
    /\ kb = NoKb

\* the C0 control bytes
C0 == 0..31

\* reads in one behaviour of this specification
WideMaxOps == 1

\* erase in line / display with the parameter "0"
EraseZeroChunks == {Csi(<<48>>, f) : f \in {75, 74}}

\* what one read returns: a C0 byte, or an erase sequence
WideChunks == {<<b>> : b \in C0} \cup EraseChunks \cup EraseZeroChunks

NextWide == \E chunk \in WideChunks : nops < WideMaxOps /\ ReaderRead(chunk)

SpecWide == InitWide /\ [][NextWide]_vars

\* the step just taken read the single byte b, the parser being in Ground
ByteRead(b) ==
    /\ last' = Op("read", <<b>>, <<0, 0>>)
    /\ nops' = nops + 1
    /\ parser.state = "Ground"

\* C31: CR sets cursor.x to 0; TAB, on a grid with a column, sets it to
\* min((cursor.x div 8 + 1) * 8, cols - 1); BS sets it to max(cursor.x - 1, 0),
\* staying on its row; nothing else of the grid changes (cursor.y, cells,
\* size, title); and any other C0 byte but LF leaves the whole grid as it is.
C31_ControlBytes ==
    [][/\ ByteRead(13) => grid' = [grid EXCEPT !.cursor.x = 0]
       /\ (ByteRead(9) /\ grid.size[1] >= 1) =>
             grid' = [grid EXCEPT !.cursor.x =
                         Min(((grid.cursor.x \div 8) + 1) * 8, grid.size[1] - 1)]
       /\ ByteRead(8) =>
             grid' = [grid EXCEPT !.cursor.x =
                         IF grid.cursor.x >= 1 THEN grid.cursor.x - 1 ELSE 0]
       /\ \A b \in C0 \ {8, 9, 10, 13} : ByteRead(b) => grid' = grid
       /\ \A b \in C0 \ {10} : ByteRead(b) => pen' = pen
      ]_vars

\* C31 witness: on a grid of ten columns full of letters, a TAB on the
\* second row moved the cursor to column 8, short of the last column
C31_Witness ==
    /\ last = Op("read", <<9>>, <<0, 0>>) /\ nops = 1
    /\ grid.size = <<10, 2>>
    /\ CellAt(grid, 8, 1).ch = 64 + 19
    /\ grid.cursor.x = 8 /\ grid.cursor.y = 1

\* a BS on the second row of a full grid left the cursor at column 0 of
\* that row
C31_WitnessFloor ==
    /\ last = Op("read", <<8>>, <<0, 0>>) /\ nops = 1
    /\ grid.size = <<3, 2>> /\ CellAt(grid, 2, 0).ch = 67
    /\ grid.cursor.x = 0 /\ grid.cursor.y = 1

\* the row with the cells of columns lo..hi reset to the default cell
ErasedRow(row, lo, hi) ==
    [i \in 1..Len(row) |->
        IF lo <= i - 1 /\ i - 1 <= hi THEN DefaultCell ELSE row[i]]

\* the parameter strings that give an erase mode: omitted or "0", "1", ...
ModeParams(n) == IF n = 0 THEN {<<>>, <<48>>} ELSE {<<48 + n>>}

\* the step just taken read the erase sequence of mode n and final byte f,
\* the parser being in Ground and the cursor on a cell
EraseRead(n, f) ==
    /\ \E ps \in ModeParams(n) : last' = Op("read", Csi(ps, f), <<0, 0>>)
    /\ nops' = nops + 1
    /\ parser.state = "Ground"
    /\ NonEmpty(grid)

\* the cell matrix of g with the columns lo..hi of row y (0-based) erased
WithErasedRow(g, y, lo, hi) ==
    [j \in 1..Len(g.cells) |->
        IF j = y + 1 THEN ErasedRow(g.cells[j], lo, hi) ELSE g.cells[j]]

\* C32: CSI n K changes cells of the cursor row only.  Mode 0 (n omitted or
\* 0) resets the columns from the cursor to the last, mode 1 the columns 0
\* to the cursor inclusive, mode 2 the whole row, any other n no cell.  The
\* cursor, the other rows, the size and the title are unchanged.
C32_EraseInLine ==
    [][\A n \in 0..3 :
          EraseRead(n, 75) =>
             /\ grid'.cursor = grid.cursor
             /\ grid'.size = grid.size /\ grid'.title = grid.title
             /\ grid'.cells =
                   WithErasedRow(grid, grid.cursor.y,
                       CASE n = 0 -> grid.cursor.x
                         [] n = 3 -> grid.size[1]
                         [] OTHER -> 0,
                       CASE n = 1 -> grid.cursor.x
                         [] OTHER -> grid.size[1] - 1)]_vars

\* C32 witness: ESC[1K with the cursor at column 1 of the second row of a
\* full 3 x 2 grid: D and E are erased, F and the first row stay
C32_Witness ==
    /\ last = Op("read", Csi(<<49>>, 75), <<0, 0>>) /\ nops = 1
    /\ grid.size = <<3, 2>>
    /\ grid.cursor.x = 1 /\ grid.cursor.y = 1
    /\ RowChars(grid.cells[1]) = <<65, 66, 67>>
    /\ RowChars(grid.cells[2]) = <<32, 32, 70>>

\* ESC[K with the cursor at column 1 of the first row: B and C are erased
C32_WitnessToEnd ==
    /\ last = Op("read", Csi(<<>>, 75), <<0, 0>>) /\ nops = 1
    /\ grid.size = <<3, 2>>
    /\ grid.cursor.x = 1 /\ grid.cursor.y = 0
    /\ RowChars(grid.cells[1]) = <<65, 32, 32>>
    /\ RowChars(grid.cells[2]) = <<68, 69, 70>>

\* the cell matrix of g with the cells from (x0, y0) to (x1, y1) inclusive,
\* in row-major order, reset to the default cell
WithErasedSpan(g, x0, y0, x1, y1) ==
    [j \in 1..Len(g.cells) |->
        [i \in 1..Len(g.cells[j]) |->
            IF /\ (j - 1 > y0 \/ (j - 1 = y0 /\ i - 1 >= x0))
               /\ (j - 1 < y1 \/ (j - 1 = y1 /\ i - 1 <= x1))
            THEN DefaultCell ELSE g.cells[j][i]]]

\* C33: CSI n J with n omitted or 0 resets the cells from the cursor to the
\* end of the screen, with n = 1 the cells from the start of the screen to
\* the cursor inclusive; the cursor does not move and the cells outside the
\* range, the size and the title are unchanged.  An n other than 0, 1, 2
\* changes nothing of the grid.
C33_EraseInDisplay ==
    [][/\ EraseRead(0, 74) =>
             /\ grid'.cursor = grid.cursor
             /\ grid'.size = grid.size /\ grid'.title = grid.title
             /\ grid'.cells =
                   WithErasedSpan(grid, grid.cursor.x, grid.cursor.y,
                                  grid.size[1] - 1, grid.size[2] - 1)
       /\ EraseRead(1, 74) =>
             /\ grid'.cursor = grid.cursor
             /\ grid'.size = grid.size /\ grid'.title = grid.title
             /\ grid'.cells =
                   WithErasedSpan(grid, 0, 0, grid.cursor.x, grid.cursor.y)
       /\ EraseRead(3, 74) => grid' = grid
      ]_vars

\* C33 witness: ESC[J with the cursor at column 1 of the first row of a
\* full 3 x 2 grid: A stays, B, C and the second row are erased
C33_Witness ==
    /\ last = Op("read", Csi(<<>>, 74), <<0, 0>>) /\ nops = 1
    /\ grid.size = <<3, 2>>
    /\ grid.cursor.x = 1 /\ grid.cursor.y = 0
    /\ RowChars(grid.cells[1]) = <<65, 32, 32>>
    /\ RowChars(grid.cells[2]) = <<32, 32, 32>>

\* ESC[1J with the cursor at column 1 of the second row: the first row, D
\* and E are erased, F stays
C33_WitnessToCursor ==
    /\ last = Op("read", Csi(<<49>>, 74), <<0, 0>>) /\ nops = 1
    /\ grid.size = <<3, 2>>
    /\ grid.cursor.x = 1 /\ grid.cursor.y = 1
    /\ RowChars(grid.cells[1]) = <<32, 32, 32>>
    /\ RowChars(grid.cells[2]) = <<32, 32, 70>>

----------------------------------------------------------------------------
(* SGR sequences read with every pen.                                      *)

\* reads in one behaviour of this specification
SgrMaxOps == 1

\* largest single SGR parameter read
MaxSgr == 107

\* parameter lists: every single parameter, and lists where a later
\* parameter meets an earlier one or follows one that is not recognized
SgrLists ==
    {<<n>> : n \in 0..MaxSgr}
        \cup {<<31, 32>>, <<1, 22>>, <<22, 1>>, <<1, 99, 31>>, <<31, 0>>,
              <<0, 31>>, <<38, 5, 1>>, <<41, 49>>, <<97, 39>>, <<44, 91, 1>>}

\* "n1;n2;..."
RECURSIVE SgrParams(_)
SgrParams(ns) ==
    IF Len(ns) = 1 THEN Decimal(ns[1])
    ELSE Decimal(ns[1]) \o <<59>> \o SgrParams(Tail(ns))

SgrSequences == {Csi(SgrParams(ns), 109) : ns \in SgrLists}

\* pens an earlier SGR has left: the default one, bold red on blue, bright
\* white
Pens ==
    {PerformerNew,
     [fg |-> red, bg |-> blue, bold |-> TRUE],
     [fg |-> bright_white, bg |-> background, bold |-> FALSE]}

InitSgr ==
    /\ grid = move_cursor(FilledGrid(MaxCols, MaxRows, MaxCols * MaxRows), 1, 1)
    /\ pen \in Pens
    /\ pty_size = <<MaxCols, MaxRows>>
    /\ applied_size = <<MaxCols, MaxRows>>
    /\ parser = ParserNew
    /\ rpc = "read"
    /\ cpc = "idle"
    /\ grid_lock = "none"
    /\ poisoned = FALSE
    /\ buf = <<>>
    /\ snap = NoSnap
    /\ want = <<0, 0>>
    /\ overflow_checks = "unknown"
    /\ last = Op("init", <<>>, <<0, 0>>)
    /\ nops = 0
    /\ writer = TRUE
    /\ pty_in = <<>>
    /\ kb = NoKb

NextSgr == \E chunk \in SgrSequences : nops < SgrMaxOps /\ ReaderRead(chunk)

SpecSgr == InitSgr /\ [][NextSgr]_vars

\* the colour tables of the claim: 30-37 / 40-47, and 90-97
BasicColours == <<black, red, green, yellow, blue, magenta, cyan, white>>
BrightColours ==
    <<bright_black, bright_red, bright_green, bright_yellow, bright_blue,
      bright_magenta, bright_cyan, bright_white>>

\* what one SGR parameter does to a pen
Rendition(p, n) ==
    IF n = 0 THEN [fg |-> foreground, bg |-> background, bold |-> FALSE]
    ELSE [fg |-> IF n \in 30..37 THEN BasicColours[n - 29]
                 ELSE IF n \in 90..97 THEN BrightColours[n - 89]
                 ELSE IF n = 39 THEN foreground ELSE p.fg,
          bg |-> IF n \in 40..47 THEN BasicColours[n - 39]
                 ELSE IF n = 49 THEN background ELSE p.bg,
          bold |-> IF n = 1 THEN TRUE ELSE IF n = 22 THEN FALSE ELSE p.bold]

\* the parameters applied from left to right
RECURSIVE Renditions(_, _)
Renditions(p, ns) ==
    IF ns = <<>> THEN p ELSE Renditions(Rendition(p, Head(ns)), Tail(ns))

\* C34: SGR applies its parameters to the pen from left to right, each as
\* the table says, an unrecognized one changing nothing and stopping
\* nothing; the grid (cells, cursor) is unchanged.
C34_Sgr ==
    [][\A ns \in SgrLists :
          (last' = Op("read", Csi(SgrParams(ns), 109), <<0, 0>>)
              /\ nops' = nops + 1 /\ parser.state = "Ground")
          => (pen' = Renditions(pen, ns) /\ grid' = grid)]_vars

\* C34 witness: ESC[1;99;31m read with a pen on the default background: 99
\* is skipped, the pen is bold red
C34_Witness ==
    /\ last = Op("read", Csi(SgrParams(<<1, 99, 31>>), 109), <<0, 0>>)
    /\ pen = [fg |-> red, bg |-> background, bold |-> TRUE]

\* ESC[31;32m: the later foreground wins
C34_WitnessLastWins ==
    /\ last = Op("read", Csi(SgrParams(<<31, 32>>), 109), <<0, 0>>)
    /\ pen.fg = green

----------------------------------------------------------------------------
(* ESC followed by one byte and a letter.                                  *)

\* reads in one behaviour of this specification
EscMaxOps == 1

\* the bytes one PTY read returns: ESC b 'B', for every 7-bit b
EscChunks == {<<27, b, 66>> : b \in 0..127}

\* full grids with the cursor on every cell
EscInputs ==
    {move_cursor(FilledGrid(MaxCols, MaxRows, MaxCols * MaxRows), x, y) :
        x \in 0..MaxCols - 1, y \in 0..MaxRows - 1}

InitEsc ==
    /\ grid \in EscInputs
    /\ pen \in Pens
    /\ pty_size = <<MaxCols, MaxRows>>
    /\ applied_size = <<MaxCols, MaxRows>>
    /\ parser = ParserNew
    /\ rpc = "read"
    /\ cpc = "idle"
    /\ grid_lock = "none"
    /\ poisoned = FALSE
    /\ buf = <<>>
    /\ snap = NoSnap
    /\ want = <<0, 0>>
    /\ overflow_checks = "unknown"
    /\ last = Op("init", <<>>, <<0, 0>>)
    /\ nops = 0
    /\ writer = TRUE
    /\ pty_in = <<>>
    /\ kb = NoKb

NextEsc == \E chunk \in EscChunks : nops < EscMaxOps /\ ReaderRead(chunk)

SpecEsc == InitEsc /\ [][NextEsc]_vars

\* this step read `chunk` with the parser in Ground
ChunkRead(chunk) ==
    last' = Op("read", chunk, <<0, 0>>) /\ nops' = nops + 1
        /\ parser.state = "Ground"

\* this step left grid, pen and parser as a Ground parser reading `bytes`
\* alone leaves them
AsGroundRead(bytes) ==
    LET M == AdvanceAll(Machine(grid, pen, parser), bytes, FALSE)
    IN  grid' = M.grid /\ pen' = M.pen /\ parser' = M.parser

\* the byte after ESC is dropped and the parser is in Ground for the 'B'
\* that follows: ESC b B leaves what B alone leaves
EscByteDiscarded(b) == ChunkRead(<<27, b, 66>>) => AsGroundRead(<<66>>)

EscFinals == (48..126) \ {80, 88, 91, 93, 94, 95}

C35_WitnessCharset ==
    /\ last = Op("read", <<27, 40, 66>>, <<0, 0>>)
    /\ RowChars(grid.cells[1]) = <<65, 66, 67>>
    /\ RowChars(grid.cells[2]) = <<68, 69, 70>>
    /\ grid.cursor.x = 0 /\ grid.cursor.y = 1
    /\ parser.state = "Ground"

----------------------------------------------------------------------------
(* put_char, cell by cell.                                                 *)

\* the cursor of g is on a cell of g
CursorInside(g) == g.cursor.x < g.size[1] /\ g.cursor.y < g.size[2]

\* C36: put_char(ch, fg, bg, bold) with the cursor on a cell replaces that
\* cell with (ch, fg, bg, bold, italic, underline, strikethrough all false)
\* and flags its row dirty; every other cell, the cursor, the size and the
\* title are unchanged; with the cursor outside the grid nothing changes.
C36_PutChar ==
    [][Called("put_char", 88, 0) =>
          IF CursorInside(grid)
          THEN /\ CellAt(grid', grid.cursor.x, grid.cursor.y) =
                     [ch |-> 88, fg |-> red, bg |-> background, bold |-> TRUE,
                      italic |-> FALSE, underline |-> FALSE,
                      strikethrough |-> FALSE]
               /\ grid'.dirty_lines[grid.cursor.y + 1]
               /\ \A y \in 0..(grid.size[2] - 1) :
                     /\ Len(grid'.cells[y + 1]) = grid.size[1]
                     /\ \A x \in 0..(grid.size[1] - 1) :
                           (x # grid.cursor.x \/ y # grid.cursor.y)
                              => CellAt(grid', x, y) = CellAt(grid, x, y)
               /\ Len(grid'.cells) = grid.size[2]
               /\ grid'.cursor = grid.cursor
               /\ grid'.size = grid.size
               /\ grid'.title = grid.title
          ELSE grid' = grid
      ]_vars

\* C36 witness: put_char('X', red, background, bold) with the cursor on E of
\* the full 3 x 2 grid: ABC / DXF, the cursor still on that cell
C36_Witness ==
    /\ last = Op("put_char", <<>>, <<88, 0>>)
    /\ grid.size = <<3, 2>>
    /\ RowChars(grid.cells[1]) = <<65, 66, 67>>
    /\ RowChars(grid.cells[2]) = <<68, 88, 70>>
    /\ CellAt(grid, 1, 1).fg = red /\ CellAt(grid, 1, 1).bold
    /\ CellAt(grid, 0, 1).fg = foreground /\ ~CellAt(grid, 0, 1).bold
    /\ grid.cursor.x = 1 /\ grid.cursor.y = 1

\* put_char on a grid of no columns: the cursor (0, 0) is outside, the two
\* empty rows stay
C36_WitnessOutside ==
    /\ last = Op("put_char", <<>>, <<88, 0>>)
    /\ grid.size = <<0, 2>>
    /\ grid.cells = << <<>>, <<>> >>
    /\ grid.cursor.x = 0 /\ grid.cursor.y = 0

----------------------------------------------------------------------------
(* execute_api_method: the method names and their typed parameters.        *)

\* API calls in one behaviour of this specification
ApiMaxOps == 1

\* serde_json::Value, as far as deserializing to String and f64 tells the
\* kinds apart: a string, a number, a boolean
JString(s) == [t |-> "string", s |-> s, n |-> 0]
JNumber(n) == [t |-> "number", s |-> <<>>, n |-> n]
JBool == [t |-> "bool", s |-> <<>>, n |-> 0]

JsonValues == {JString(<<97>>), JNumber(2), JNumber(-1), JBool}

\* ApiParams: a map from some of the names to a value each
ParamNames == {"text", "cols", "rows"}
ParamMaps == UNION {[names -> JsonValues] : names \in SUBSET ParamNames}

\* the methods execute_api_method names, and one it does not
Methods == {"write", "clear", "resize", "get_title", "get_size", "bogus"}

\* serde_json::from_value::<T>(value), T = String or f64
from_value(value, T) ==
    IF T = "String"
    THEN [ok |-> value.t = "string", s |-> value.s, n |-> 0]
    ELSE [ok |-> value.t = "number", s |-> <<>>, n |-> value.n]

\* ApiParams::get::<T>(name): Err when the name is absent or the value does
\* not deserialize to T
ApiParamsGet(params, name, T) ==
    IF name \notin DOMAIN params THEN [ok |-> FALSE, s |-> <<>>, n |-> 0]
    ELSE from_value(params[name], T)

\* f64 as u16: the cast saturates
AsU16(n) == IF n < 0 THEN 0 ELSE Min(n, 65535)

\* what a call does: its result, the text it passes to write_to_terminal,
\* the size it passes to resize_terminal, whether it locks the grid
ApiEffect(ok, text, resizes, size, locks) ==
    [ok |-> ok, text |-> text, resizes |-> resizes, size |-> size,
     locks |-> locks]
ApiErr == ApiEffect(FALSE, <<>>, FALSE, <<0, 0>>, FALSE)

\* variant of execute_api_method: a resize without "rows" keeps one row
execute_api_method_default_rows(method, params) ==
    CASE method = "write" ->
            LET text == ApiParamsGet(params, "text", "String")
            IN  IF ~text.ok THEN ApiErr
                ELSE ApiEffect(TRUE, text.s, FALSE, <<0, 0>>, FALSE)
      [] method = "clear" ->
            ApiEffect(TRUE, ClearScreenHome, FALSE, <<0, 0>>, FALSE)
      [] method = "resize" ->
            LET cols == ApiParamsGet(params, "cols", "f64")
                rows == ApiParamsGet(params, "rows", "f64")
            IN  IF ~cols.ok THEN ApiErr
                ELSE IF ~rows.ok
                THEN ApiEffect(TRUE, <<>>, TRUE, <<AsU16(cols.n), 1>>, TRUE)
                ELSE ApiEffect(TRUE, <<>>, TRUE,
                               <<AsU16(cols.n), AsU16(rows.n)>>, TRUE)
      [] method \in {"get_title", "get_size"} ->
            ApiEffect(TRUE, <<>>, FALSE, <<0, 0>>, TRUE)
      [] OTHER -> ApiErr

\* execute_api_method(method, params): each `?` returns the Err before the
\* statements after it run
execute_api_method(method, params) ==
    CASE method = "write" ->
            LET text == ApiParamsGet(params, "text", "String")
            IN  IF ~text.ok THEN ApiErr
                ELSE ApiEffect(TRUE, text.s, FALSE, <<0, 0>>, FALSE)
      [] method = "clear" ->
            ApiEffect(TRUE, ClearScreenHome, FALSE, <<0, 0>>, FALSE)
      [] method = "resize" ->
            LET cols == ApiParamsGet(params, "cols", "f64")
                rows == ApiParamsGet(params, "rows", "f64")
            IN  IF ~cols.ok THEN ApiErr
                ELSE IF ~rows.ok THEN ApiErr
                ELSE ApiEffect(TRUE, <<>>, TRUE,
                               <<AsU16(cols.n), AsU16(rows.n)>>, TRUE)
      [] method \in {"get_title", "get_size"} ->
            ApiEffect(TRUE, <<>>, FALSE, <<0, 0>>, TRUE)
      [] OTHER -> ApiErr

\* the actor after new(): the shell spawned, the writer stored
InitApi ==
    /\ grid = TerminalGridNew(MaxCols, MaxRows)
    /\ pty_size = <<MaxCols, MaxRows>>
    /\ applied_size = <<MaxCols, MaxRows>>
    /\ pen = PerformerNew
    /\ parser = ParserNew
    /\ rpc = "read"
    /\ cpc = "idle"
    /\ grid_lock = "none"
    /\ poisoned = FALSE
    /\ buf = <<>>
    /\ snap = NoSnap
    /\ want = <<0, 0>>
    /\ overflow_checks = "unknown"
    /\ last = Op("init", <<>>, <<0, 0>>)
    /\ nops = 0
    /\ writer = TRUE
    /\ pty_in = <<>>
    /\ kb = NoKb

\* One call of execute_api_method: write_to_terminal for a text,
\* resize_terminal (master.resize, its error dropped, then the grid under
\* its lock) for a size; lock().unwrap() panics on a poisoned grid mutex.
\* last.op is the result: api_ok for Ok(..), api_err for Err(..).
ExecuteApiMethod(method, params) ==
    LET e == execute_api_method(method, params)
        panics == e.locks /\ poisoned
    IN
    /\ cpc = "idle"
    /\ nops < ApiMaxOps
    /\ IF e.text = <<>> THEN pty_in' = pty_in ELSE write_to_terminal(e.text)
    /\ IF e.resizes
       THEN /\ \E pty_ok \in BOOLEAN :
                  pty_size' = IF pty_ok THEN e.size ELSE pty_size
            /\ IF panics
               THEN grid' = grid /\ applied_size' = applied_size
               ELSE /\ grid' = resize(grid, e.size[1], e.size[2])
                    /\ applied_size' = e.size
       ELSE UNCHANGED <<pty_size, grid, applied_size>>
    /\ cpc' = IF panics THEN "panicked" ELSE cpc
    /\ last' = Op(IF panics THEN "api_panic"
                  ELSE IF e.ok THEN "api_ok" ELSE "api_err",
                  <<method, params>>, <<0, 0>>)
    /\ nops' = nops + 1
    /\ UNCHANGED <<pen, parser, rpc, grid_lock, poisoned, buf, snap, want,
                   overflow_checks, writer, kb>>

NextApi == \E method \in Methods, params \in ParamMaps :
              ExecuteApiMethod(method, params)

SpecApi == InitApi /\ [][NextApi]_vars

\* `name` is absent from params, or its value is not of kind t
Lacks(params, name, t) == name \notin DOMAIN params \/ params[name].t # t

\* the calls of the claim: a method that is not named, write without a
\* string "text", resize without a number "cols" or a number "rows"
BadCall(method, params) ==
    \/ method \notin {"write", "clear", "resize", "get_title", "get_size"}
    \/ method = "write" /\ Lacks(params, "text", "string")
    \/ method = "resize"
          /\ (Lacks(params, "cols", "number") \/ Lacks(params, "rows", "number"))

\* C37: a call with an unknown method, or write / resize with a missing or
\* wrongly typed required parameter, returns Err and has no effect: nothing
\* is written to the PTY, PTY size and grid are unchanged.
C37_BadCallNoEffect ==
    [][\A method \in Methods, params \in ParamMaps :
          (last'.op \in {"api_ok", "api_err", "api_panic"}
              /\ last'.chunk = <<method, params>> /\ nops' = nops + 1
              /\ BadCall(method, params))
          => /\ last'.op = "api_err"
             /\ pty_in' = pty_in
             /\ pty_size' = pty_size
             /\ grid' = grid
             /\ cpc' = cpc]_vars

\* C37 witness: resize with cols = 2 and no rows returned Err; PTY and grid
\* are still MaxCols x MaxRows
C37_Witness ==
    /\ last = Op("api_err", <<"resize", [n \in {"cols"} |-> JNumber(2)]>>,
                 <<0, 0>>)
    /\ pty_size = <<MaxCols, MaxRows>> /\ grid.size = <<MaxCols, MaxRows>>
    /\ pty_in = <<>>

\* write with a number as text returned Err and wrote nothing
C37_WitnessWrongType ==
    /\ last = Op("api_err", <<"write", [n \in {"text"} |-> JNumber(2)]>>,
                 <<0, 0>>)
    /\ pty_in = <<>>

\* a well-formed resize is applied: the calls of the claim are told apart
\* by their parameters, not by the method
C37_WitnessApplied ==
    /\ last.op = "api_ok" /\ last.chunk[1] = "resize"
    /\ pty_size = <<2, 2>> /\ grid.size = <<2, 2>>

----------------------------------------------------------------------------
(* Every single byte and every CSI final byte, read on full grids.         *)

\* reads in one behaviour of this specification
OpsMaxOps == 1

\* the bytes one PTY read returns: one byte; ESC [ f and ESC [ 2 f for every
\* final byte f; an SGR or OSC sequence
OpChunks ==
    {<<b>> : b \in 0..127}
        \cup {Csi(ps, f) : ps \in {<<>>, <<50>>}, f \in 64..126}
        \cup SgrChunks \cup OscChunks

InitOps ==
    /\ grid \in EscInputs
    /\ pen = [fg |-> red, bg |-> blue, bold |-> TRUE]
    /\ pty_size = <<MaxCols, MaxRows>>
    /\ applied_size = <<MaxCols, MaxRows>>
    /\ parser = ParserNew
    /\ rpc = "read"
    /\ cpc = "idle"
    /\ grid_lock = "none"
    /\ poisoned = FALSE
    /\ buf = <<>>
    /\ snap = NoSnap
    /\ want = <<0, 0>>
    /\ overflow_checks = "unknown"
    /\ last = Op("init", <<>>, <<0, 0>>)
    /\ nops = 0
    /\ writer = TRUE
    /\ pty_in = <<>>
    /\ kb = NoKb

NextOps == \E chunk \in OpChunks : nops < OpsMaxOps /\ ReaderRead(chunk)

SpecOps == InitOps /\ [][NextOps]_vars

\* the chunks of the claim: a printable byte; erase in line / display; the
\* cursor movements and CR, TAB, BS; SGR and OSC
IsPrintable(chunk) == Len(chunk) = 1 /\ chunk[1] \in 32..127
IsErase(chunk) == chunk \in {Csi(ps, f) : ps \in {<<>>, <<50>>}, f \in {75, 74}}
IsCursorMove(chunk) ==
    \/ chunk \in {Csi(ps, f) : ps \in {<<>>, <<50>>},
                               f \in {72, 102, 65, 66, 67, 68}}
    \/ chunk \in {<<13>>, <<9>>, <<8>>}
IsSgrOrOsc(chunk) ==
    chunk \in {Csi(ps, 109) : ps \in {<<>>, <<50>>}} \cup SgrChunks \cup OscChunks

\* C38: a read changes cells only when it prints, erases (K, J) or is a LF
\* on the last row (a scroll); the cursor movements H, f, A, B, C, D and CR,
\* TAB, BS leave cells, size, title and pen as they were; SGR and OSC leave
\* cells and cursor as they were; no read changes the size.
C38_CellChangers ==
    [][\A chunk \in OpChunks :
          ChunkRead(chunk) =>
             /\ grid'.size = grid.size
             /\ grid'.cells # grid.cells =>
                   \/ IsPrintable(chunk)
                   \/ IsErase(chunk)
                   \/ chunk = <<10>> /\ grid.cursor.y = grid.size[2] - 1
             /\ IsCursorMove(chunk) =>
                   /\ grid'.cells = grid.cells /\ grid'.title = grid.title
                   /\ pen' = pen
             /\ IsSgrOrOsc(chunk) =>
                   grid'.cells = grid.cells /\ grid'.cursor = grid.cursor
      ]_vars

\* C38 witness: ESC[B read with the cursor on B of ABC/DEF: the cursor is
\* on E, the letters are where they were
C38_Witness ==
    /\ last = Op("read", Csi(<<>>, 66), <<0, 0>>)
    /\ grid.cursor.x = 1 /\ grid.cursor.y = 1
    /\ RowChars(grid.cells[1]) = <<65, 66, 67>>
    /\ RowChars(grid.cells[2]) = <<68, 69, 70>>

\* BS read with the cursor on F: the cursor is on E, F is still there
C38_WitnessBackspace ==
    /\ last = Op("read", <<8>>, <<0, 0>>)
    /\ grid.cursor.x = 1 /\ grid.cursor.y = 1
    /\ RowChars(grid.cells[2]) = <<68, 69, 70>>

\* LF read on the last row: the scroll has changed the cells
C38_WitnessScroll ==
    /\ last = Op("read", <<10>>, <<0, 0>>)
    /\ RowChars(grid.cells[1]) = <<68, 69, 70>>
    /\ RowChars(grid.cells[2]) = <<32, 32, 32>>

\* ESC]0;t BEL: the title is t, cells and cursor are where they were
C38_WitnessOsc ==
    /\ last = Op("read", Osc(<<48, 59, 116>>), <<0, 0>>)
    /\ grid.title = <<116>>
    /\ grid.cursor.x = 2 /\ grid.cursor.y = 0
    /\ RowChars(grid.cells[1]) = <<65, 66, 67>>

----------------------------------------------------------------------------
(* One byte stream, returned by the PTY reads in pieces of any length.     *)

\* what the child writes: text, CSI and OSC sequences followed by text
SplitStreams ==
    {RedAPlainB, Position2x2X, UnknownCsiQ, ALfB,
     Osc(<<48, 59, 116>>) \o <<65>>,
     Csi(<<49, 59, 51, 49>>, 109) \o <<65>>,
     <<27, 55, 66>>}

\* the next n bytes of stream s after the first k
Piece(s, k, n) == SubSeq(s, k + 1, k + n)

\* variant of SplitRead: the parser is created inside the loop, a fresh one
\* for every read
SplitRead_fresh_parser(s, n) ==
    LET k == Len(last.chunk)
        chunk == Piece(s, k, n)
    IN
    /\ rpc = "read"
    /\ cpc = "idle"
    /\ k + n <= Len(s)
    /\ SubSeq(s, 1, k) = last.chunk
    /\ \E oc \in Builds :
          LET W == AdvanceAll(Machine(grid, pen, ParserNew), chunk, FALSE)
              M == IF oc THEN AdvanceAll(Machine(grid, pen, ParserNew), chunk, TRUE)
                   ELSE W
          IN  /\ oc => W.overflow
              /\ grid' = M.grid
              /\ pen' = M.pen
              /\ parser' = M.parser
              /\ rpc' = IF M.panic THEN "panicked" ELSE "read"
              /\ poisoned' = (poisoned \/ M.panic)
              /\ overflow_checks' = IF M.overflow
                                    THEN (IF oc THEN "on" ELSE "off")
                                    ELSE overflow_checks
    /\ last' = Op("read", last.chunk \o chunk, <<0, 0>>)
    /\ nops' = nops + 1
    /\ UNCHANGED ioVars
    /\ UNCHANGED <<pty_size, cpc, grid_lock, buf, snap, want, applied_size>>

\* One iteration of the reader loop while the child writes stream s:
\* reader.read returns the next n bytes, each is advanced through the parser
\* and the performer the thread created before the loop.  last.chunk holds
\* every byte read so far (history).
SplitRead(s, n) ==
    LET k == Len(last.chunk)
        chunk == Piece(s, k, n)
    IN
    /\ rpc = "read"
    /\ cpc = "idle"
    /\ k + n <= Len(s)
    /\ SubSeq(s, 1, k) = last.chunk
    /\ \E oc \in Builds :
          LET W == AdvanceAll(Machine(grid, pen, parser), chunk, FALSE)
              M == IF oc THEN AdvanceAll(Machine(grid, pen, parser), chunk, TRUE)
                   ELSE W
          IN  /\ oc => W.overflow
              /\ grid' = M.grid
              /\ pen' = M.pen
              /\ parser' = M.parser
              /\ rpc' = IF M.panic THEN "panicked" ELSE "read"
              /\ poisoned' = (poisoned \/ M.panic)
              /\ overflow_checks' = IF M.overflow
                                    THEN (IF oc THEN "on" ELSE "off")
                                    ELSE overflow_checks
    /\ last' = Op("read", last.chunk \o chunk, <<0, 0>>)
    /\ nops' = nops + 1
    /\ UNCHANGED ioVars
    /\ UNCHANGED <<pty_size, cpc, grid_lock, buf, snap, want, applied_size>>

NextSplit ==
    \E s \in SplitStreams : \E n \in 1..Len(s) : SplitRead(s, n)

SpecSplit == Init /\ [][NextSplit]_vars

\* what one read of all of `bytes` leaves on the new terminal
OneRead(bytes) ==
    AdvanceAll(Machine(TerminalGridNew(MaxCols, MaxRows), PerformerNew, ParserNew),
               bytes, FALSE)

\* C39: after the bytes of a stream have been read, in however many reads
\* and with the cuts anywhere, grid (cells, cursor, title), pen and parser
\* state are what one read of the same bytes gives.
C39_SplitIndependent ==
    last.op = "read" =>
        /\ grid = OneRead(last.chunk).grid
        /\ pen = OneRead(last.chunk).pen
        /\ parser = OneRead(last.chunk).parser

\* C39 witness: ESC[2;2H X arrived in three reads, so at least one cut fell
\* inside the CSI sequence: X is at row 1, column 1, the cursor after it
C39_Witness ==
    /\ last = Op("read", Position2x2X, <<0, 0>>) /\ nops = 3
    /\ CellAt(grid, 1, 1).ch = 88
    /\ grid.cursor.x = 2 /\ grid.cursor.y = 1

\* ESC]0;t BEL A arrived in three reads, a cut inside the OSC string: the
\* title is t and A is printed
C39_WitnessOsc ==
    /\ last = Op("read", Osc(<<48, 59, 116>>) \o <<65>>, <<0, 0>>) /\ nops = 3
    /\ grid.title = <<116>>
    /\ CellAt(grid, 0, 0).ch = 65

\* ESC[1;31m A arrived byte by byte: the pen is bold red, A is printed bold
\* and red
C39_WitnessSgr ==
    /\ last = Op("read", Csi(<<49, 59, 51, 49>>, 109) \o <<65>>, <<0, 0>>)
    /\ nops = 8
    /\ pen = [fg |-> red, bg |-> background, bold |-> TRUE]
    /\ CellAt(grid, 0, 0) = PenCell(65, pen)

\* a read has ended inside a CSI sequence: the parser waits in CsiParam
C39_WitnessOpen ==
    /\ last.op = "read" /\ parser.state = "CsiParam" /\ rpc = "read"

----------------------------------------------------------------------------
(* Waiting for locks in the concurrent specification.  Of the four         *)
(* mutexes only terminal_grid is locked by both threads: parser is locked  *)
(* by the reader alone, writer and pty_master by the caller alone, each in *)
(* a block that locks nothing else.                                        *)

\* the reader is at a byte whose callback locks the grid
ReaderWantsLock ==
    rpc = "advance"
        /\ Advance(Machine(grid, pen, parser), Head(buf), FALSE).locks > 0

\* the caller is at the terminal_grid.lock() of resize_terminal
CallerWantsLock == cpc = "resize_grid"

\* the steps of the caller while it holds the grid lock
CallerHoldStep ==
    \/ SnapshotFirst
    \/ SnapshotRest
    \/ \E cols \in 0..MaxCols, rows \in 0..MaxRows : SnapshotUnlock(cols, rows)

\* C40: no deadlock on the grid lock.  Its holder is never itself waiting
\* for a lock and always has a step that leads to dropping the guard: the
\* reader holds it only inside a callback, which returns (or panics, which
\* releases and poisons it); the caller holds it only while it reads the
\* grid in render or get_state.  The caller does not hold it when it calls
\* resize_terminal or starts a new request, so it never waits for itself.
C40_NoDeadlock ==
    /\ grid_lock = "reader" => (rpc = "in_op" /\ ENABLED ReaderUnlock)
    /\ grid_lock = "caller" =>
          (cpc \in {"snap_first", "snap_rest", "snapped"} /\ ENABLED CallerHoldStep)
    /\ cpc \in {"idle", "resize_pty", "resize_grid", "panicked"}
          => grid_lock # "caller"
    /\ rpc \in {"read", "advance", "panicked"} => grid_lock # "reader"
    /\ (ReaderWantsLock /\ CallerWantsLock) => MutexFree(grid_lock)

\* C40 witness: render found another size, dropped its guard and is at the
\* lock() of resize_terminal while the reader holds the lock in a callback
C40_Witness ==
    /\ last.op = "render" /\ cpc = "resize_grid"
    /\ grid_lock = "reader" /\ rpc = "in_op"

\* the reader waits with a printable byte in hand while render holds the lock
C40_WitnessReaderWaits ==
    /\ ReaderWantsLock /\ grid_lock = "caller" /\ snap.by = "render"

\* the reader has panicked in a callback: the lock is free and poisoned,
\* the caller at resize_terminal's lock() is not left waiting
C40_WitnessPoisoned ==
    /\ rpc = "panicked" /\ poisoned /\ grid_lock = "none"
    /\ cpc = "resize_grid"

=============================================================================
